---- MODULE Spec2Model ----
(***************************************************************************)
(* The game simulation core of src/App.tsx: the phase machine, the timers  *)
(* (one-shot timeouts, the enemy-fire interval), the pending narrative     *)
(* requests and the React effects that react to a committed state.         *)
(*                                                                         *)
(* A state of the model is a committed React state together with the       *)
(* timers and promises that are still pending.  Time is metric: every      *)
(* delay of the code is a multiple of 50 ms, and Tick advances the clock   *)
(* by that quantum.  Timers fire in deadline order, equal deadlines in the *)
(* order they were set.  The passive effects of a commit (auto-leap,       *)
(* game-over) are flushed before any other handler or timer runs.          *)
(***************************************************************************)
EXTENDS Integers, Sequences, FiniteSets, TLC

VARIABLES
    gameState,          \* useState<GameState>
    celestialObjects,   \* useState<CelestialObject[]>
    galaxyInfo,         \* useState<GalaxyInfo | null>: "null" or "loaded"
    laser,              \* useState<LaserEffect | null>: NoLaser or the target id
    enemyLasers,        \* useState<LaserEffect[]>
    score,              \* useState(0)
    highScore,          \* useState(0)
    stored,             \* localStorage[HIGH_SCORE_KEY]: NoValue or a number
    playerHealth,       \* useState(MAX_PLAYER_HEALTH)
    ultraBoostCount,    \* useState(5)
    level,              \* useState(1)
    timers,             \* pending setTimeout callbacks, in the order they were set
    enemyInterval,      \* the enemy-fire setInterval: NoInterval or ms until it fires
    promises,           \* pending generateGalaxyInfo() continuations
    generation,         \* number of generateCelestialObjects calls so far (part of every id)
    shotsLeft,          \* enemy shots the explored window still admits
    framesLeft,         \* frames that move a ship the explored window still admits
    hits,               \* resolved enemy hits since the last restart
    lastEvent,          \* the handler, timer callback or effect that ran last
    phaseLog,           \* the phases seen since a shot at the last ship was accepted
    clearLevel,         \* the level that shot was fired at
    clearRest,          \* the entities that shot leaves in the population
    boost,              \* the ultra-boost under way: ships still to destroy, time since
    idleClock,          \* ms of IDLE since the enemy-fire callback last ran (NoValue: not kept)
    projectionScale     \* projectionRef.current.scale(), in hundredths of a pixel

gameVars == <<gameState, celestialObjects, galaxyInfo, laser, enemyLasers, score,
              highScore, stored, playerHealth, ultraBoostCount, level>>
schedVars == <<timers, enemyInterval, promises, generation>>
observerVars == <<phaseLog, clearLevel, clearRest, boost, idleClock>>
vars == <<gameVars, schedVars, shotsLeft, framesLeft, hits, lastEvent, observerVars,
          projectionScale>>

----------------------------------------------------------------------------
(* Program constants *)

MAX_PLAYER_HEALTH == 100
ENEMY_LASER_DAMAGE == 5
HEALTH_REWARD == 10
BOOST_REWARD == 1
INITIAL_BOOSTS == 5

Quantum == 50                \* every delay below is a multiple of it
FIRE_DESTROY_DELAY == 200
FIRE_RETURN_DELAY == 500
BOOST_STAGGER == 50
ENEMY_LASER_TRAVEL == 1000
MANUAL_LEAP_DELAY == 1500
AUTO_LEAP_DELAY == 2000
ENEMY_BASE_PERIOD == 2500
ENEMY_PERIOD_PER_SHIP == 50
ENEMY_PERIOD_MAX_CUT == 1800

GameStates == {"IDLE", "FIRING", "LEAPING", "GENERATING", "PAUSED", "ERROR", "GAME_OVER"}

ShipClasses == <<"fighter", "interceptor", "cruiser", "bomber", "dreadnought">>
BaseShipTypes == {ShipClasses[i] : i \in 1..5}
Mk2Of(c) == c \o "-mk2"
Mk2ShipTypes == {Mk2Of(c) : c \in BaseShipTypes}

ENEMY_SCORES_Mk2Same(shipType) ==
    CASE shipType \in {"fighter", "fighter-mk2"} -> 10
      [] shipType \in {"interceptor", "interceptor-mk2"} -> 15
      [] shipType \in {"cruiser", "cruiser-mk2"} -> 25
      [] shipType \in {"bomber", "bomber-mk2"} -> 50
      [] shipType \in {"dreadnought", "dreadnought-mk2"} -> 100

ENEMY_SCORES(shipType) ==
    CASE shipType = "fighter" -> 10
      [] shipType = "interceptor" -> 15
      [] shipType = "cruiser" -> 25
      [] shipType = "bomber" -> 50
      [] shipType = "dreadnought" -> 100
      [] shipType = "fighter-mk2" -> 20
      [] shipType = "interceptor-mk2" -> 30
      [] shipType = "cruiser-mk2" -> 50
      [] shipType = "bomber-mk2" -> 100
      [] shipType = "dreadnought-mk2" -> 200

----------------------------------------------------------------------------
(* Bounds of the model *)

MaxGenerations == 2       \* generateCelestialObjects calls in one behaviour
MaxEnemyShots == 1        \* enemy shots in one behaviour of Spec
LateGenerations == 2      \* the same in one behaviour of SpecLate
LateHits == 18            \* enemy hits taken before SpecLate starts
LateEnemyShots == 2       \* enemy shots in one behaviour of SpecLate
AttritionGenerations == 1 \* generateCelestialObjects calls in one behaviour of SpecAttrition
RecordHits == 19          \* enemy hits taken before SpecRecord starts
RecordEnemyShots == 1     \* enemy shots in one behaviour of SpecRecord
MaxFrames == 3            \* frames that move a ship in one behaviour
MaxLevel == 3             \* levels generateCelestialObjects is called with in SpecGenerate
InputGrid == 10           \* between deadlines, inputs arrive every InputGrid quanta

NoValue == -1
NoId == <<0, 0>>
NoLaser == NoId
NoInterval == -1
NoTarget == [id |-> NoId, type |-> "none", shipType |-> "none",
             coordinates |-> <<0, 0>>, movementPattern |-> "none",
             velocity |-> <<0, 0>>, flankDirection |-> "none"]

(* What ran last, with the input it was given: the ids on the visible disc  *)
(* for fireUltraBoost and for the enemy-fire callback, the clicked target  *)
(* for fireOnTarget.                                                       *)
Event(name) == [name |-> name, arg |-> {}]
EventWith(name, arg) == [name |-> name, arg |-> arg]

NoBoost == [plan |-> <<>>, n |-> 0, clock |-> NoValue]

Max(a, b) == IF a > b THEN a ELSE b
Min(a, b) == IF a < b THEN a ELSE b

----------------------------------------------------------------------------
(* generateCelestialObjects.  A random draw Math.random() is an integer    *)
(* percentage 0..99; thresholds 0.01, 0.02, 0.25, 0.50 become 1, 2, 25, 50 *)
(* and the class thresholds 0.4, 0.6, 0.8, 0.95 become 40, 60, 80, 95.     *)
(* Coordinates and velocities are integers in tenths of a degree, the grid *)
(* on which the nudge to (0.1, 0) of a flanking ship is exact.  Sizes and  *)
(* colours are not part of this model, and whether an entity is on the     *)
(* visible disc at a given moment is an input of the operation that asks   *)
(* (the projection rotates continuously and under the user's drag).        *)

CELESTIAL_OBJECT_COUNT == 500
CoordUnit == 10
LON_SPAN == 360
LAT_SPAN == 180

(* a / b rounded to the nearest integer, b > 0 *)
RoundDiv(a, b) == (a + b \div 2) \div b

Coordinate_FromZero(rand, span) == (rand * span * CoordUnit) \div 100

(* (Math.random() - 0.5) * span *)
Coordinate(rand, span) == ((rand - 50) * span * CoordUnit) \div 100

(* (Math.random() - 0.5) * 0.4 *)
StrafeVelocity(rand) == RoundDiv((rand - 50) * 4 * CoordUnit, 1000)

ShipClassFor(rand) ==
    IF rand < 40 THEN "fighter"
    ELSE IF rand < 60 THEN "interceptor"
    ELSE IF rand < 80 THEN "cruiser"
    ELSE IF rand < 95 THEN "bomber"
    ELSE "dreadnought"

ShipTypeFor_Mk2FromLevel3(lvl, rand) ==
    IF lvl > 2 THEN Mk2Of(ShipClassFor(rand)) ELSE ShipClassFor(rand)

ShipTypeFor(lvl, rand) ==
    LET useMk2Ships == lvl > 1
        class == ShipClassFor(rand)
    IN  IF useMk2Ships THEN Mk2Of(class) ELSE class

MovementPatternFor(class) ==
    IF class = "fighter" THEN "strafe"
    ELSE IF class = "interceptor" THEN "flank"
    ELSE "static"

MaxShipsForLevel_UpTo24(capRand) == ((capRand * 21) \div 100) + 4

MaxShipsForLevel(capRand) == ((capRand * 20) \div 100) + 4

(* `${typeRand}-${Date.now()}-${i}`: gen stands for the time of the call *)
EntityId(gen, i) == <<gen, i>>

(* What every entity has (common), and the fields of ships; the entities   *)
(* that are no ships carry "none" and a zero velocity in their place.      *)
Entity(gen, i, draw, type) ==
    [id |-> EntityId(gen, i), type |-> type, shipType |-> "none",
     coordinates |-> <<Coordinate(draw.lonRand, LON_SPAN), Coordinate(draw.latRand, LAT_SPAN)>>,
     movementPattern |-> "none", velocity |-> <<0, 0>>, flankDirection |-> "none"]

ShipEntity(gen, i, draw, lvl) ==
    LET class == ShipClassFor(draw.rand)
    IN  [Entity(gen, i, draw, "ship") EXCEPT
           !.shipType = ShipTypeFor(lvl, draw.rand),
           !.movementPattern = MovementPatternFor(class),
           !.velocity = IF class = "fighter" THEN <<StrafeVelocity(draw.velRand), 0>>
                        ELSE <<0, 0>>,
           !.flankDirection = IF class # "interceptor" THEN "none"
                              ELSE IF draw.dirRand < 50 THEN "cw" ELSE "ccw"]

Slot_OverCapIsStar(lvl, maxShipsForLevel, draw, gen, i, shipCount) ==
    LET typeRand == draw.typeRand
    IN  IF typeRand < 1 THEN Entity(gen, i, draw, "heart_star")
        ELSE IF typeRand < 2 THEN Entity(gen, i, draw, "boost_star")
        ELSE IF typeRand < 25
               THEN IF shipCount < maxShipsForLevel THEN ShipEntity(gen, i, draw, lvl)
                    ELSE Entity(gen, i, draw, "star")
        ELSE IF typeRand < 50 THEN Entity(gen, i, draw, "asteroid")
        ELSE Entity(gen, i, draw, "star")

(* One pass of the loop body for slot i, with shipCount ships pushed so far *)
Slot(lvl, maxShipsForLevel, draw, gen, i, shipCount) ==
    LET typeRand == draw.typeRand
    IN  IF typeRand < 1 THEN Entity(gen, i, draw, "heart_star")
        ELSE IF typeRand < 2 THEN Entity(gen, i, draw, "boost_star")
        ELSE IF typeRand < 25 /\ shipCount < maxShipsForLevel THEN ShipEntity(gen, i, draw, lvl)
        ELSE IF typeRand < 50 THEN Entity(gen, i, draw, "asteroid")
        ELSE Entity(gen, i, draw, "star")

(* The loop over the slots lo..hi, entered with shipCount ships pushed.    *)
(* Running lo..hi is running lo..mid and then mid+1..hi with the count the *)
(* first run ends on; the evaluation is split this way so that its nesting *)
(* grows with the logarithm of the number of slots.                        *)
RECURSIVE GenerateFrom(_, _, _, _, _, _, _)
GenerateFrom(lvl, maxShipsForLevel, draws, gen, lo, hi, shipCount) ==
    IF lo > hi THEN <<>>
    ELSE IF lo = hi THEN <<Slot(lvl, maxShipsForLevel, draws[lo], gen, lo, shipCount)>>
    ELSE LET mid == (lo + hi) \div 2
             first == GenerateFrom(lvl, maxShipsForLevel, draws, gen, lo, mid, shipCount)
             pushed == Cardinality({k \in 1..Len(first) : first[k].type = "ship"})
         IN  first \o GenerateFrom(lvl, maxShipsForLevel, draws, gen, mid + 1, hi,
                                   shipCount + pushed)

(* The code fills CELESTIAL_OBJECT_COUNT slots.  Where fewer draws than    *)
(* that are enumerated the population has one slot per draw.               *)
generateCelestialObjects(lvl, capRand, draws, gen) ==
    GenerateFrom(lvl, MaxShipsForLevel(capRand), draws, gen, 1,
                 Min(CELESTIAL_OBJECT_COUNT, Len(draws)), 0)

(* The outcomes of the random draws of one slot.  Draw gives the entity a   *)
(* place and a velocity that a frame of the movement loop leaves as they   *)
(* are on the grid of tenths of a degree: 1.8 degrees north of the origin, *)
(* no drift.                                                               *)
DrawAt(typeRand, rand, lonRand, latRand, velRand, dirRand) ==
    [typeRand |-> typeRand, rand |-> rand, lonRand |-> lonRand, latRand |-> latRand,
     velRand |-> velRand, dirRand |-> dirRand]

Draw(typeRand, rand) == DrawAt(typeRand, rand, 50, 51, 50, 0)

(* The populations the model enumerates, one typeRand in each category     *)
(* range and one rand in each class range: two ships; one ship and a star; *)
(* a heart star or a boost star and a ship; no ship.                       *)
CapDraws == {0, 99}
DrawSeqs == { <<Draw(10, 10), Draw(10, 97)>>,
              <<Draw(10, 50), Draw(70, 0)>>,
              <<Draw(0, 0), Draw(10, 70)>>,
              <<Draw(1, 0), Draw(10, 90)>>,
              <<Draw(30, 0), Draw(70, 0)>> }

LateDrawSeqs == { <<Draw(10, 50), Draw(70, 0)>> }

(* A dreadnought, a cruiser and a star *)
RecordDrawSeqs == { <<Draw(10, 97), Draw(10, 70), Draw(70, 0)>> }

Ships(objs) == {i \in 1..Len(objs) : objs[i].type = "ship"}
ShipCount(objs) == Cardinality(Ships(objs))
Ids(objs) == {objs[i].id : i \in 1..Len(objs)}

----------------------------------------------------------------------------
(* Timers, promises and effects *)

(* A pending setTimeout: the delay left and what its closure captured: the  *)
(* target and the highScore of destroyTarget, the level of a leap, the id  *)
(* of an enemy laser and the gameState the enemy-fire effect ran under.    *)
Timer(delay, kind, target, hs, lvl, lid, gs) ==
    [due |-> delay, kind |-> kind, target |-> target, hs |-> hs, lvl |-> lvl,
     lid |-> lid, gs |-> gs]

Promise(kind, lvl) == [kind |-> kind, lvl |-> lvl]

DueTimers == {i \in 1..Len(timers) : timers[i].due = 0}
FirstDue == CHOOSE i \in DueTimers : \A j \in DueTimers : i <= j
RemoveAt(seq, i) == SubSeq(seq, 1, i - 1) \o SubSeq(seq, i + 1, Len(seq))
TimersOfKind(kinds) == {i \in 1..Len(timers) : timers[i].kind \in kinds}

(* counts: useMemo over celestialObjects *)
counts == [ships |-> ShipCount(celestialObjects)]

(* The period of the enemy-fire interval *)
EnemyFirePeriod(objs) ==
    ENEMY_BASE_PERIOD - Min(ENEMY_PERIOD_MAX_CUT, ShipCount(objs) * ENEMY_PERIOD_PER_SHIP)

(* The enemy-fire effect after a commit: not IDLE, no interval (cleanup);  *)
(* a dependency changed (gameState, celestialObjects), a fresh interval.   *)
EnemyFireEffect_AnyPhase(gs, objs, depsChanged) ==
    IF depsChanged \/ enemyInterval = NoInterval THEN EnemyFirePeriod(objs)
    ELSE enemyInterval

EnemyFireEffect(gs, objs, depsChanged) ==
    IF gs # "IDLE" THEN NoInterval
    ELSE IF depsChanged \/ enemyInterval = NoInterval THEN EnemyFirePeriod(objs)
    ELSE enemyInterval

(* The conditions of the auto-leap and the game-over effect *)
AutoLeapCondition ==
    /\ counts.ships = 0
    /\ gameState = "IDLE"
    /\ Len(celestialObjects) > 0
    /\ galaxyInfo # "null"

GameOverCondition == playerHealth <= 0 /\ gameState # "GAME_OVER"

EffectsPending == AutoLeapCondition \/ GameOverCondition

StoredAtMount == {20}

(* The projection scale, kept in hundredths of a pixel: 0.45 times the     *)
(* smaller side of the viewport and a tenth of a wheel delta are whole     *)
(* numbers of them.                                                        *)
ScaleUnit == 100
MIN_SCALE == 100
MAX_SCALE == 2000

(* baseScale = Math.min(width, height) / 2 * 0.9 *)
BaseScale(viewport) == (Min(viewport[1], viewport[2]) * 45 * ScaleUnit) \div 100

(* resize: projection.clipAngle(90) returns the projection itself, so the  *)
(* divisor of currentScaleRatio is the current scale, or baseScale when    *)
(* that is 0: the ratio is scale / scale = 1, or 0 / baseScale = 0 (the    *)
(* sides of a viewport are positive).                                      *)
Resized(scale, viewport) ==
    LET baseScale == BaseScale(viewport)
        currentScaleRatio == IF scale # 0 THEN 1 ELSE 0
    IN  baseScale * currentScaleRatio

(* handleWheel: currentScale - event.deltaY * 0.1, clamped *)
Zoomed(scale, deltaY) ==
    Max(MIN_SCALE * ScaleUnit,
        Min(MAX_SCALE * ScaleUnit, scale - (deltaY * ScaleUnit) \div 10))

(* The viewport the page is mounted in *)
MountViewport == <<1920, 1080>>

MountState ==
    /\ gameState = "GENERATING"
    /\ celestialObjects = <<>>
    /\ galaxyInfo = "null"
    /\ laser = NoLaser
    /\ enemyLasers = <<>>
    /\ score = 0
    /\ stored \in StoredAtMount
    /\ highScore = IF stored = NoValue THEN 0 ELSE stored
    /\ playerHealth = MAX_PLAYER_HEALTH
    /\ ultraBoostCount = INITIAL_BOOSTS
    /\ level = 1
    /\ timers = <<>>
    /\ enemyInterval = NoInterval
    /\ promises = <<Promise("setup", 1)>>
    /\ generation = 0
    /\ shotsLeft = MaxEnemyShots
    /\ framesLeft = MaxFrames
    /\ hits = 0
    /\ lastEvent = Event("mount")
    /\ phaseLog = <<>>
    /\ clearLevel = 0
    /\ clearRest = 0
    /\ boost = NoBoost
    /\ projectionScale = BaseScale(MountViewport)

Init == MountState /\ idleClock = NoValue

----------------------------------------------------------------------------
(* Time.  With no timeout pending, the time up to the expiry of the        *)
(* enemy-fire interval passes in one step: every handler that changes the  *)
(* state in between re-arms or clears that interval.  With timeouts        *)
(* pending, time passes up to the next deadline, or by InputGrid quanta    *)
(* when the next deadline is farther away.                                 *)

RECURSIVE MinDue(_)
MinDue(ts) == IF Len(ts) = 1 THEN ts[1].due ELSE Min(ts[1].due, MinDue(Tail(ts)))
NextDeadline == IF enemyInterval = NoInterval THEN MinDue(timers)
                ELSE Min(enemyInterval, MinDue(timers))

TickStep == IF timers = <<>> THEN enemyInterval
            ELSE Min(NextDeadline, InputGrid * Quantum)

(* Observers.  They read the step the program takes and change nothing of  *)
(* it.                                                                     *)

(* phaseLog starts at IDLE, FIRING when fireOnTarget is accepted on the    *)
(* only ship left, and records every change of phase from there.  It is    *)
(* dropped when the shot destroys nothing, when health reaches 0, and one  *)
(* step after its sixth entry.                                             *)
ClearingShot ==
    /\ lastEvent'.name = "fireOnTarget"
    /\ gameState = "IDLE"
    /\ playerHealth > 0
    /\ \E i \in 1..Len(celestialObjects) :
          /\ lastEvent'.arg = {celestialObjects[i].id}
          /\ Ships(celestialObjects) = {i}

ObservePhases ==
    /\ phaseLog' =
          IF ClearingShot THEN <<"IDLE", "FIRING">>
          ELSE IF phaseLog = <<>> \/ Len(phaseLog) = 6 THEN <<>>
          ELSE IF playerHealth' <= 0 THEN <<>>
          ELSE IF lastEvent'.name = "fireDestroy" /\ celestialObjects' = celestialObjects
            THEN <<>>
          ELSE IF gameState' # gameState THEN Append(phaseLog, gameState')
          ELSE phaseLog
    /\ clearLevel' = IF ClearingShot THEN level
                     ELSE IF phaseLog' = <<>> THEN 0
                     ELSE clearLevel
    /\ clearRest' = IF ClearingShot THEN Len(celestialObjects) - 1
                    ELSE IF phaseLog' = <<>> THEN 0
                    ELSE clearRest

(* boost starts when fireUltraBoost is accepted: the ids of the ships on    *)
(* the visible disc it was called with, in population order, and a clock.  *)
(* Every staggered timer takes the head of the plan, the return timer ends *)
(* the record.                                                             *)
BoostPlan(objs, visible) ==
    LET hostile == SelectSeq(objs, LAMBDA o : o.type = "ship" /\ o.id \in visible)
    IN  [k \in 1..Len(hostile) |-> hostile[k].id]

BoostAccepted ==
    /\ lastEvent'.name = "fireUltraBoost"
    /\ gameState = "IDLE"
    /\ ultraBoostCount > 0

ObserveBoost ==
    boost' =
      IF BoostAccepted
        THEN LET plan == BoostPlan(celestialObjects, lastEvent'.arg)
             IN  [plan |-> plan, n |-> Len(plan), clock |-> 0]
      ELSE IF boost.clock = NoValue THEN boost
      ELSE IF lastEvent'.name = "boostDestroy"
        THEN [boost EXCEPT !.plan = IF @ = <<>> THEN <<>> ELSE Tail(@)]
      ELSE IF lastEvent'.name = "boostReturn" THEN NoBoost
      ELSE IF lastEvent'.name = "tick" THEN [boost EXCEPT !.clock = @ + TickStep]
      ELSE IF lastEvent'.name = "idleTick"
        THEN [boost EXCEPT !.clock = @ + InputGrid * Quantum]
      ELSE boost

(* idleClock, where it is kept, runs while the phase is IDLE and starts    *)
(* again when the phase becomes IDLE, when the callback of the enemy-fire  *)
(* interval has run and when the number of ships, and with it the period,  *)
(* changes.  It stops one quantum above the longest period.                *)
IdleClockCap == ENEMY_BASE_PERIOD + Quantum

ObserveIdle ==
    idleClock' =
      IF idleClock = NoValue THEN NoValue
      ELSE IF gameState' # "IDLE" \/ gameState # "IDLE" THEN 0
      ELSE IF lastEvent'.name \in {"enemyFire", "enemyHolds"} THEN 0
      ELSE IF ShipCount(celestialObjects') # ShipCount(celestialObjects) THEN 0
      ELSE IF lastEvent'.name = "tick" THEN Min(IdleClockCap, idleClock + TickStep)
      ELSE IF lastEvent'.name = "idleTick"
        THEN Min(IdleClockCap, idleClock + InputGrid * Quantum)
      ELSE idleClock

Observe == ObservePhases /\ ObserveBoost /\ ObserveIdle

Tick ==
    /\ ~EffectsPending
    /\ DueTimers = {}
    /\ enemyInterval # 0
    /\ timers # <<>> \/ enemyInterval # NoInterval
    /\ LET step == TickStep
       IN  /\ timers' = [i \in 1..Len(timers) |-> [timers[i] EXCEPT !.due = @ - step]]
           /\ enemyInterval' = IF enemyInterval = NoInterval THEN NoInterval
                               ELSE enemyInterval - step
    /\ lastEvent' = Event("tick")
    /\ UNCHANGED <<gameVars, promises, generation, shotsLeft, framesLeft, hits>>
    /\ UNCHANGED projectionScale
    /\ Observe

(* With nothing but the enemy-fire interval pending, time may also pass by *)
(* InputGrid quanta short of its expiry: what runs then (a frame, a        *)
(* control) finds the interval part-way through its period.                *)
IdleTick ==
    /\ ~EffectsPending
    /\ timers = <<>>
    /\ enemyInterval # NoInterval
    /\ enemyInterval > InputGrid * Quantum
    /\ enemyInterval' = enemyInterval - InputGrid * Quantum
    /\ lastEvent' = Event("idleTick")
    /\ UNCHANGED <<gameVars, timers, promises, generation, shotsLeft, framesLeft, hits>>
    /\ UNCHANGED projectionScale
    /\ Observe

----------------------------------------------------------------------------
(* setupNewGalaxy(levelToGenerate, isRestart) up to its await *)

RestartValues_KeepBoosts ==
    [level |-> 1, score |-> 0, ultraBoostCount |-> ultraBoostCount,
     playerHealth |-> MAX_PLAYER_HEALTH]

(* What the isRestart branch sets *)
RestartValues ==
    [level |-> 1, score |-> 0, ultraBoostCount |-> INITIAL_BOOSTS,
     playerHealth |-> MAX_PLAYER_HEALTH]

SetupNewGalaxy_RestoresHealth(levelToGenerate, isRestart, ts) ==
    /\ gameState' = "GENERATING"
    /\ celestialObjects' = <<>>
    /\ galaxyInfo' = "null"
    /\ enemyLasers' = <<>>
    /\ playerHealth' = RestartValues.playerHealth
    /\ IF isRestart
         THEN /\ level' = RestartValues.level
              /\ score' = RestartValues.score
              /\ ultraBoostCount' = RestartValues.ultraBoostCount
              /\ hits' = 0
         ELSE /\ level' = levelToGenerate
              /\ UNCHANGED <<score, ultraBoostCount, hits>>
    /\ promises' = Append(promises, Promise("setup", levelToGenerate))
    /\ timers' = ts
    /\ enemyInterval' = NoInterval
    /\ UNCHANGED <<laser, highScore, stored, generation, shotsLeft, framesLeft>>

SetupNewGalaxy(levelToGenerate, isRestart, ts) ==
    /\ gameState' = "GENERATING"
    /\ celestialObjects' = <<>>
    /\ galaxyInfo' = "null"
    /\ enemyLasers' = <<>>
    /\ IF isRestart
         THEN /\ level' = RestartValues.level
              /\ score' = RestartValues.score
              /\ ultraBoostCount' = RestartValues.ultraBoostCount
              /\ playerHealth' = RestartValues.playerHealth
              /\ hits' = 0
         ELSE /\ level' = levelToGenerate
              /\ UNCHANGED <<score, ultraBoostCount, playerHealth, hits>>
    /\ promises' = Append(promises, Promise("setup", levelToGenerate))
    /\ timers' = ts
    /\ enemyInterval' = NoInterval
    /\ UNCHANGED <<laser, highScore, stored, generation, shotsLeft, framesLeft>>

(* The restart button of the game-over modal *)
Restart ==
    /\ ~EffectsPending
    /\ gameState = "GAME_OVER"
    /\ SetupNewGalaxy(1, TRUE, timers)
    /\ lastEvent' = Event("restart")
    /\ UNCHANGED projectionScale
    /\ Observe

(* The 2000 ms timer of the auto-leap effect *)
AutoLeapTimer ==
    /\ ~EffectsPending
    /\ DueTimers # {}
    /\ timers[FirstDue].kind = "autoLeap"
    /\ SetupNewGalaxy(timers[FirstDue].lvl, FALSE, RemoveAt(timers, FirstDue))
    /\ lastEvent' = Event("autoLeapTimer")
    /\ UNCHANGED projectionScale
    /\ Observe

(* The continuation of setupNewGalaxy / handleQuantumLeap after the await. *)
(* The narrative request may take any time to answer; the model follows at *)
(* most maxGenerations answers, with the random draws taken from drawSeqs. *)
ResolveGalaxyInfo(drawSeqs, maxGenerations) ==
    /\ ~EffectsPending
    /\ generation < maxGenerations
    /\ \E p \in 1..Len(promises), capRand \in CapDraws, draws \in drawSeqs :
         LET objs == generateCelestialObjects(promises[p].lvl, capRand, draws, generation + 1)
         IN  /\ galaxyInfo' = "loaded"
             /\ celestialObjects' = objs
             /\ gameState' = "IDLE"
             /\ promises' = RemoveAt(promises, p)
             /\ generation' = generation + 1
             /\ enemyInterval' = EnemyFireEffect("IDLE", objs, TRUE)
             /\ lastEvent' = Event(IF promises[p].kind = "setup" THEN "setupDone" ELSE "leapDone")
    /\ UNCHANGED <<laser, enemyLasers, score, highScore, stored, playerHealth,
                   ultraBoostCount, level, timers, shotsLeft, framesLeft, hits>>
    /\ UNCHANGED projectionScale
    /\ Observe

----------------------------------------------------------------------------
(* Manual leap *)

handleQuantumLeap ==
    /\ ~EffectsPending
    /\ lastEvent' = Event("handleQuantumLeap")
    /\ IF gameState # "IDLE"
         THEN UNCHANGED <<gameVars, schedVars, shotsLeft, framesLeft, hits>>
         ELSE /\ gameState' = "LEAPING"
              /\ timers' = Append(timers,
                    Timer(MANUAL_LEAP_DELAY, "leap", NoTarget, 0, level, 0, gameState))
              /\ enemyInterval' = NoInterval
              /\ UNCHANGED <<celestialObjects, galaxyInfo, laser, enemyLasers, score,
                             highScore, stored, playerHealth, ultraBoostCount, level,
                             promises, generation, shotsLeft, framesLeft, hits>>
    /\ UNCHANGED projectionScale
    /\ Observe

(* The 1500 ms timer of handleQuantumLeap, up to its await *)
LeapTimer ==
    /\ ~EffectsPending
    /\ DueTimers # {}
    /\ timers[FirstDue].kind = "leap"
    /\ gameState' = "GENERATING"
    /\ promises' = Append(promises, Promise("leap", timers[FirstDue].lvl))
    /\ timers' = RemoveAt(timers, FirstDue)
    /\ enemyInterval' = NoInterval
    /\ lastEvent' = Event("leapTimer")
    /\ UNCHANGED <<celestialObjects, galaxyInfo, laser, enemyLasers, score, highScore,
                   stored, playerHealth, ultraBoostCount, level, generation, shotsLeft, framesLeft, hits>>
    /\ UNCHANGED projectionScale
    /\ Observe

----------------------------------------------------------------------------
(* destroyTarget(target, screenPos), called from a timer whose closure      *)
(* holds the destroyTarget of the render the shot was fired in, and with   *)
(* it that render's highScore.                                             *)

DestroyedScore(target, prevScore) ==
    IF target.type = "ship" THEN prevScore + ENEMY_SCORES(target.shipType) ELSE prevScore

HealedHealth_Unclamped(h) == h + HEALTH_REWARD

(* setPlayerHealth(h => Math.min(MAX_PLAYER_HEALTH, h + HEALTH_REWARD)) *)
HealedHealth(h) == Min(MAX_PLAYER_HEALTH, h + HEALTH_REWARD)

destroyTarget_RemovesByType(target, capturedHighScore) ==
    LET newScore == DestroyedScore(target, score)
        record == target.type = "ship" /\ newScore > capturedHighScore
    IN  /\ score' = newScore
        /\ highScore' = IF record THEN newScore ELSE highScore
        /\ stored' = IF record THEN newScore ELSE stored
        /\ playerHealth' = IF target.type = "heart_star"
                             THEN HealedHealth(playerHealth)
                             ELSE playerHealth
        /\ ultraBoostCount' = IF target.type = "boost_star"
                                THEN ultraBoostCount + BOOST_REWARD
                                ELSE ultraBoostCount
        /\ celestialObjects' = SelectSeq(celestialObjects, LAMBDA s : s.type # target.type)

destroyTarget(target, capturedHighScore) ==
    LET newScore == DestroyedScore(target, score)
        record == target.type = "ship" /\ newScore > capturedHighScore
    IN  /\ score' = newScore
        /\ highScore' = IF record THEN newScore ELSE highScore
        /\ stored' = IF record THEN newScore ELSE stored
        /\ playerHealth' = IF target.type = "heart_star"
                             THEN HealedHealth(playerHealth)
                             ELSE playerHealth
        /\ ultraBoostCount' = IF target.type = "boost_star"
                                THEN ultraBoostCount + BOOST_REWARD
                                ELSE ultraBoostCount
        /\ celestialObjects' = SelectSeq(celestialObjects, LAMBDA s : s.id # target.id)

(* The 200 ms timer of fireOnTarget *)
FireDestroyTimer ==
    /\ ~EffectsPending
    /\ DueTimers # {}
    /\ timers[FirstDue].kind = "fireDestroy"
    /\ laser' = NoLaser
    /\ destroyTarget(timers[FirstDue].target, timers[FirstDue].hs)
    /\ timers' = RemoveAt(timers, FirstDue)
    /\ enemyInterval' = EnemyFireEffect(gameState, celestialObjects', TRUE)
    /\ lastEvent' = Event("fireDestroy")
    /\ UNCHANGED <<gameState, galaxyInfo, enemyLasers, level, promises, generation,
                   shotsLeft, framesLeft, hits>>
    /\ UNCHANGED projectionScale
    /\ Observe

(* One staggered timer of fireUltraBoost *)
BoostDestroyTimer ==
    /\ ~EffectsPending
    /\ DueTimers # {}
    /\ timers[FirstDue].kind = "boostDestroy"
    /\ destroyTarget(timers[FirstDue].target, timers[FirstDue].hs)
    /\ timers' = RemoveAt(timers, FirstDue)
    /\ enemyInterval' = EnemyFireEffect(gameState, celestialObjects', TRUE)
    /\ lastEvent' = Event("boostDestroy")
    /\ UNCHANGED <<gameState, galaxyInfo, laser, enemyLasers, level, promises, generation,
                   shotsLeft, framesLeft, hits>>
    /\ UNCHANGED projectionScale
    /\ Observe

(* The timers that return the phase to IDLE: 500 ms after fireOnTarget,    *)
(* 500 ms + 50 ms per visible hostile after fireUltraBoost                 *)
ReturnTimer(kind, event) ==
    /\ ~EffectsPending
    /\ DueTimers # {}
    /\ timers[FirstDue].kind = kind
    /\ gameState' = "IDLE"
    /\ timers' = RemoveAt(timers, FirstDue)
    /\ enemyInterval' = EnemyFireEffect("IDLE", celestialObjects, gameState # "IDLE")
    /\ lastEvent' = Event(event)
    /\ UNCHANGED <<celestialObjects, galaxyInfo, laser, enemyLasers, score, highScore,
                   stored, playerHealth, ultraBoostCount, level, promises, generation,
                   shotsLeft, framesLeft, hits>>
    /\ UNCHANGED projectionScale
    /\ Observe

FireReturnTimer == ReturnTimer("fireReturn", "fireReturn")
BoostReturnTimer == ReturnTimer("boostReturn", "boostReturn")

----------------------------------------------------------------------------
(* Player fire *)

(* The guard of fireOnTarget *)
CanFire(gs) == gs = "IDLE"

fireOnTarget(i) ==
    /\ ~EffectsPending
    /\ i \in 1..Len(celestialObjects)
    /\ lastEvent' = EventWith("fireOnTarget", {celestialObjects[i].id})
    /\ IF ~CanFire(gameState)
         THEN UNCHANGED <<gameVars, schedVars, shotsLeft, framesLeft, hits>>
         ELSE /\ gameState' = "FIRING"
              /\ laser' = celestialObjects[i].id
              /\ timers' = timers \o
                    <<Timer(FIRE_DESTROY_DELAY, "fireDestroy", celestialObjects[i],
                            highScore, 0, 0, gameState),
                      Timer(FIRE_RETURN_DELAY, "fireReturn", NoTarget, 0, 0, 0, gameState)>>
              /\ enemyInterval' = NoInterval
              /\ UNCHANGED <<celestialObjects, galaxyInfo, enemyLasers, score, highScore,
                             stored, playerHealth, ultraBoostCount, level, promises,
                             generation, shotsLeft, framesLeft, hits>>
    /\ UNCHANGED projectionScale
    /\ Observe

(* The hostiles on the visible disc, in population order *)
VisibleHostiles(objs, visible) ==
    SelectSeq(objs, LAMBDA o : o.type = "ship" /\ o.id \in visible)

CanBoost_OffByOne(gs, count) == ~(gs # "IDLE" \/ count < 0)

(* The guard of fireUltraBoost *)
CanBoost(gs, count) == ~(gs # "IDLE" \/ count <= 0)

(* The delay of the timer of visibleHostiles[i], i counted from 0 *)
StaggerDelay(i) == i * BOOST_STAGGER

fireUltraBoost(visible) ==
    /\ ~EffectsPending
    /\ lastEvent' = EventWith("fireUltraBoost", visible)
    /\ IF ~CanBoost(gameState, ultraBoostCount)
         THEN UNCHANGED <<gameVars, schedVars, shotsLeft, framesLeft, hits>>
         ELSE LET visibleHostiles == VisibleHostiles(celestialObjects, visible)
                  n == Len(visibleHostiles)
              IN  /\ ultraBoostCount' = ultraBoostCount - 1
                  /\ gameState' = "FIRING"
                  /\ timers' = timers \o
                        [k \in 1..n |-> Timer(StaggerDelay(k - 1), "boostDestroy",
                                              visibleHostiles[k], highScore, 0, 0, gameState)]
                        \o <<Timer(FIRE_RETURN_DELAY + n * BOOST_STAGGER, "boostReturn",
                                   NoTarget, 0, 0, 0, gameState)>>
                  /\ enemyInterval' = NoInterval
                  /\ UNCHANGED <<celestialObjects, galaxyInfo, laser, enemyLasers, score,
                                 highScore, stored, playerHealth, level, promises,
                                 generation, shotsLeft, framesLeft, hits>>
    /\ UNCHANGED projectionScale
    /\ Observe

PauseToggled_FromAnyPhase(gs) == IF gs = "PAUSED" THEN "IDLE" ELSE "PAUSED"

(* The phase togglePause sets *)
PauseToggled(gs) ==
    IF gs = "PAUSED" THEN "IDLE"
    ELSE IF gs = "IDLE" THEN "PAUSED"
    ELSE gs

togglePause ==
    /\ ~EffectsPending
    /\ lastEvent' = Event("togglePause")
    /\ gameState' = PauseToggled(gameState)
    /\ enemyInterval' = EnemyFireEffect(gameState', celestialObjects, gameState' # gameState)
    /\ UNCHANGED <<celestialObjects, galaxyInfo, laser, enemyLasers, score, highScore,
                   stored, playerHealth, ultraBoostCount, level, timers, promises,
                   generation, shotsLeft, framesLeft, hits>>
    /\ UNCHANGED projectionScale
    /\ Observe

----------------------------------------------------------------------------
(* Enemy fire *)

UsedLaserIds == {enemyLasers[i].id : i \in 1..Len(enemyLasers)}
                    \cup {timers[i].lid : i \in 1..Len(timers)}
FreshLaserId == CHOOSE n \in 1..(Len(timers) + Len(enemyLasers) + 1) : n \notin UsedLaserIds

(* The callback of the enemy-fire interval.  firingShip is the random pick  *)
(* among all ships of the population; visible is the set of ships whose    *)
(* projection is on the disc at that moment.  The callback returns without *)
(* a laser when the ship it picked is not one of them.                     *)
ShipIds(objs) == {objs[i].id : i \in Ships(objs)}

EnemyInterval(budgeted) ==
    /\ ~EffectsPending
    /\ enemyInterval = 0
    /\ enemyInterval' = EnemyFirePeriod(celestialObjects)
    /\ IF Ships(celestialObjects) = {}
         THEN /\ lastEvent' = Event("enemyHolds")
              /\ UNCHANGED <<gameVars, timers, promises, generation, shotsLeft, framesLeft, hits>>
         ELSE \E firingShip \in Ships(celestialObjects),
                 visible \in SUBSET ShipIds(celestialObjects) :
                IF celestialObjects[firingShip].id \notin visible
                  THEN /\ lastEvent' = EventWith("enemyHolds", visible)
                       /\ UNCHANGED <<gameVars, timers, promises, generation, shotsLeft, framesLeft, hits>>
                  ELSE /\ budgeted => shotsLeft > 0
                       /\ shotsLeft' = IF budgeted THEN shotsLeft - 1 ELSE shotsLeft
                       /\ enemyLasers' = Append(enemyLasers,
                             [id |-> FreshLaserId, from |-> celestialObjects[firingShip].id])
                       /\ timers' = Append(timers,
                             Timer(ENEMY_LASER_TRAVEL, "enemyHit", NoTarget, 0, 0,
                                   FreshLaserId, gameState))
                       /\ lastEvent' = EventWith("enemyFire", visible)
                       /\ UNCHANGED <<gameState, celestialObjects, galaxyInfo, laser, score,
                                      highScore, stored, playerHealth, ultraBoostCount,
                                      level, promises, generation, framesLeft, hits>>
    /\ UNCHANGED projectionScale
    /\ Observe

HitApplies_WhenIdle(capturedGameState, currentGameState) == currentGameState = "IDLE"

(* The 1000 ms timer of an enemy laser.  Its test reads the gameState of   *)
(* the render the enemy-fire effect ran in (timers[..].gs), not the        *)
(* current one.                                                            *)
HitApplies(capturedGameState, currentGameState) ==
    capturedGameState # "LEAPING" /\ capturedGameState # "GENERATING"

DamagedHealth_Double(h) == Max(0, h - 2 * ENEMY_LASER_DAMAGE)

(* setPlayerHealth(h => Math.max(0, h - ENEMY_LASER_DAMAGE)) *)
DamagedHealth(h) == Max(0, h - ENEMY_LASER_DAMAGE)

EnemyHitTimer ==
    /\ ~EffectsPending
    /\ DueTimers # {}
    /\ timers[FirstDue].kind = "enemyHit"
    /\ enemyLasers' = SelectSeq(enemyLasers, LAMBDA l : l.id # timers[FirstDue].lid)
    /\ IF HitApplies(timers[FirstDue].gs, gameState)
         THEN /\ playerHealth' = DamagedHealth(playerHealth)
              /\ hits' = hits + 1
              /\ lastEvent' = Event("enemyHit")
         ELSE /\ UNCHANGED <<playerHealth, hits>>
              /\ lastEvent' = Event("enemyMiss")
    /\ timers' = RemoveAt(timers, FirstDue)
    /\ UNCHANGED <<gameState, celestialObjects, galaxyInfo, laser, score, highScore,
                   stored, ultraBoostCount, level, enemyInterval, promises, generation,
                   shotsLeft, framesLeft>>
    /\ UNCHANGED projectionScale
    /\ Observe

----------------------------------------------------------------------------
(* The passive effects of a commit, flushed together: the auto-leap effect *)
(* and, declared after it, the game-over effect; both read the same render *)
(* and the later setGameState wins.                                        *)

RunEffects ==
    /\ EffectsPending
    /\ gameState' = IF GameOverCondition THEN "GAME_OVER" ELSE "LEAPING"
    /\ timers' = IF AutoLeapCondition
                   THEN Append(timers, Timer(AUTO_LEAP_DELAY, "autoLeap", NoTarget, 0,
                                             level + 1, 0, gameState))
                   ELSE timers
    /\ enemyInterval' = NoInterval
    /\ lastEvent' = Event(IF GameOverCondition THEN "gameOver" ELSE "autoLeap")
    /\ UNCHANGED <<celestialObjects, galaxyInfo, laser, enemyLasers, score, highScore,
                   stored, playerHealth, ultraBoostCount, level, promises, generation,
                   shotsLeft, framesLeft, hits>>
    /\ UNCHANGED projectionScale
    /\ Observe

(* The movement effect.  A strafing ship drifts by its velocity, wraps in   *)
(* longitude and is held within 85 degrees of latitude, where its vertical *)
(* velocity is reversed.  A flanking ship turns about the origin of the    *)
(* (longitude, latitude) plane by 0.005 rad: the code goes through         *)
(* r = sqrt(lon^2 + lat^2) and atan2, which is the rotation computed here  *)
(* in fixed point, cos 0.005 and sin 0.005 to six decimals, the result     *)
(* rounded to the grid.                                                    *)
FixedPoint == 1000000
COS_ANGULAR_SPEED == 999988
SIN_ANGULAR_SPEED == 5000
STRAFE_LAT_LIMIT == 85
LON_LIMIT == 180
LAT_LIMIT == 90

MoveStrafe_NoWrap(obj) ==
    LET newLat == obj.coordinates[2] + obj.velocity[2]
        top == STRAFE_LAT_LIMIT * CoordUnit
    IN  [obj EXCEPT !.coordinates =
            <<obj.coordinates[1] + obj.velocity[1], Max(-top, Min(top, newLat))>>]

MoveStrafe_LatDrift(obj) ==
    LET lonSum == obj.coordinates[1] + obj.velocity[1]
        latSum == obj.coordinates[2] + obj.velocity[1]
        top == STRAFE_LAT_LIMIT * CoordUnit
        edge == LON_LIMIT * CoordUnit
    IN  [obj EXCEPT !.coordinates =
            <<IF lonSum > edge THEN lonSum - 2 * edge
              ELSE IF lonSum < -edge THEN lonSum + 2 * edge ELSE lonSum,
              Max(-top, Min(top, latSum))>>]

MoveStrafe(obj) ==
    LET lon == obj.coordinates[1]
        lat == obj.coordinates[2]
        dLon == obj.velocity[1]
        dLat == obj.velocity[2]
        top == STRAFE_LAT_LIMIT * CoordUnit
        edge == LON_LIMIT * CoordUnit
        lonSum == lon + dLon
        newLat == lat + dLat
        newLon == IF lonSum > edge THEN -edge + (lonSum - edge)
                  ELSE IF lonSum < -edge THEN edge + (lonSum + edge)
                  ELSE lonSum
        newVel == IF newLat > top \/ newLat < -top THEN <<dLon, -dLat>> ELSE obj.velocity
    IN  [obj EXCEPT !.coordinates = <<newLon, IF newLat > top THEN top
                                               ELSE IF newLat < -top THEN -top
                                               ELSE newLat>>,
                    !.velocity = newVel]

MoveFlank_LonOnly(obj) ==
    LET lon == obj.coordinates[1]
        lat == obj.coordinates[2]
        edge == LON_LIMIT * CoordUnit
        sin == IF obj.flankDirection = "cw" THEN -SIN_ANGULAR_SPEED ELSE SIN_ANGULAR_SPEED
        turnedLon == RoundDiv(lon * COS_ANGULAR_SPEED - lat * sin, FixedPoint)
    IN  IF lon = 0 /\ lat = 0 THEN [obj EXCEPT !.coordinates = <<1, 0>>]
        ELSE [obj EXCEPT !.coordinates =
                <<IF turnedLon > edge THEN turnedLon - 2 * edge
                  ELSE IF turnedLon < -edge THEN turnedLon + 2 * edge ELSE turnedLon,
                  lat>>]

MoveFlank(obj) ==
    LET lon == obj.coordinates[1]
        lat == obj.coordinates[2]
        edge == LON_LIMIT * CoordUnit
        pole == LAT_LIMIT * CoordUnit
        sin == IF obj.flankDirection = "cw" THEN -SIN_ANGULAR_SPEED ELSE SIN_ANGULAR_SPEED
        turnedLon == RoundDiv(lon * COS_ANGULAR_SPEED - lat * sin, FixedPoint)
        turnedLat == RoundDiv(lon * sin + lat * COS_ANGULAR_SPEED, FixedPoint)
        newLat == Max(-pole, Min(pole, turnedLat))
        newLon == IF turnedLon > edge THEN turnedLon - 2 * edge
                  ELSE IF turnedLon < -edge THEN turnedLon + 2 * edge
                  ELSE turnedLon
    IN  IF lon = 0 /\ lat = 0 THEN [obj EXCEPT !.coordinates = <<1, 0>>]
        ELSE [obj EXCEPT !.coordinates = <<newLon, newLat>>]

MoveObject_EveryShipTurns(obj) ==
    IF obj.type # "ship" THEN obj
    ELSE IF obj.movementPattern = "strafe" THEN MoveStrafe(obj)
    ELSE MoveFlank(obj)

(* The callback of prev.map *)
MoveObject(obj) ==
    IF obj.type # "ship" THEN obj
    ELSE IF obj.movementPattern = "strafe" THEN MoveStrafe(obj)
    ELSE IF obj.movementPattern = "flank" THEN MoveFlank(obj)
    ELSE obj

FrameMoves_UnlessLeaping(gs) == gs \notin {"LEAPING", "GENERATING"}

(* The test of animateShips: gameState is the one of the render the effect *)
(* ran in, and the effect runs again whenever gameState changes.           *)
FrameMoves(gs) == gs = "IDLE"

(* One animation frame.  In IDLE the population is mapped to a new array,  *)
(* which is a changed dependency of the enemy-fire effect whether or not   *)
(* a ship has moved; in any other phase the frame only requests the next.  *)
animateShips ==
    /\ ~EffectsPending
    /\ lastEvent' = Event("frame")
    /\ IF FrameMoves(gameState)
         THEN LET moved == [i \in 1..Len(celestialObjects) |->
                              MoveObject(celestialObjects[i])]
              IN  /\ moved # celestialObjects => framesLeft > 0
                  /\ celestialObjects' = moved
                  /\ framesLeft' = IF moved # celestialObjects THEN framesLeft - 1
                                    ELSE framesLeft
                  /\ enemyInterval' = EnemyFireEffect(gameState, moved, TRUE)
                  /\ UNCHANGED <<gameState, galaxyInfo, laser, enemyLasers, score,
                                 highScore, stored, playerHealth, ultraBoostCount, level,
                                 timers, promises, generation, shotsLeft, hits>>
         ELSE UNCHANGED <<gameVars, schedVars, shotsLeft, framesLeft, hits>>
    /\ UNCHANGED projectionScale
    /\ Observe

(* The frames of the phase in which ships move, and the frames of the      *)
(* other phases, which change nothing.                                     *)
IdleFrame == gameState = "IDLE" /\ animateShips
FrozenFrame == gameState # "IDLE" /\ animateShips

----------------------------------------------------------------------------

----------------------------------------------------------------------------
(* Auto-aim (the version of the game that has it).  The screen position of *)
(* a hostile is an input, in whole pixels; a position the projection does  *)
(* not give (null) is <<NoValue, NoValue>>.                                *)

(* The player's ship on the screen: [innerWidth / 2, innerHeight] *)
ShipPosition(viewport) == <<viewport[1] \div 2, viewport[2]>>

(* The square of the distance between two points of the screen; Math.sqrt  *)
(* is increasing, so distances compare as their squares do.                *)
SquaredDistance(p, q) == (p[1] - q[1]) * (p[1] - q[1]) + (p[2] - q[2]) * (p[2] - q[2])

(* The filter of visibleHostiles: a position within scale of the centre of *)
(* the projection, translate() = [width / 2, height / 2]; scale is in      *)
(* hundredths of a pixel, compared in tenths.                              *)
OnDisc(screenPos, scale, viewport) ==
    /\ screenPos # <<NoValue, NoValue>>
    /\ 100 * SquaredDistance(screenPos, <<viewport[1] \div 2, viewport[2] \div 2>>)
          <= (scale \div 10) * (scale \div 10)

ClosestTarget_LastWinsTie(hostiles, screenPos, from) ==
    LET RECURSIVE Scan(_, _, _)
        Scan(k, closest, minDistance) ==
            IF k > Len(hostiles) THEN closest
            ELSE LET dist == SquaredDistance(screenPos[hostiles[k].id], from)
                 IN  IF minDistance = NoValue \/ dist <= minDistance
                       THEN Scan(k + 1, k, dist)
                       ELSE Scan(k + 1, closest, minDistance)
    IN  Scan(1, 1, NoValue)

(* The forEach of handleAutoFire over visibleHostiles: the place in        *)
(* hostiles of closestTarget; minDistance starts at Infinity (NoValue).    *)
ClosestTarget(hostiles, screenPos, from) ==
    LET RECURSIVE Scan(_, _, _)
        Scan(k, closest, minDistance) ==
            IF k > Len(hostiles) THEN closest
            ELSE LET dist == SquaredDistance(screenPos[hostiles[k].id], from)
                 IN  IF minDistance = NoValue \/ dist < minDistance
                       THEN Scan(k + 1, k, dist)
                       ELSE Scan(k + 1, closest, minDistance)
    IN  Scan(1, 1, NoValue)

(* handleAutoFire, the callback of the 750 ms auto-fire interval, with the *)
(* fireOnTarget it ends in.                                                *)
handleAutoFire ==
    /\ ~EffectsPending
    /\ \E screenPos \in [ShipIds(celestialObjects) ->
                            {<<NoValue, NoValue>>, <<960, 1020>>, <<1020, 1000>>,
                             <<900, 1000>>, <<960, 1075>>}] :
          LET visibleHostiles ==
                  SelectSeq(celestialObjects,
                            LAMBDA o : /\ o.type = "ship"
                                       /\ OnDisc(screenPos[o.id], projectionScale,
                                                 MountViewport))
              closestTarget ==
                  visibleHostiles[ClosestTarget(visibleHostiles, screenPos,
                                                ShipPosition(MountViewport))]
          IN  /\ lastEvent' = EventWith("handleAutoFire", screenPos)
              /\ IF Len(visibleHostiles) = 0 \/ ~CanFire(gameState)
                   THEN UNCHANGED <<gameVars, schedVars, shotsLeft, framesLeft, hits>>
                   ELSE /\ gameState' = "FIRING"
                        /\ laser' = closestTarget.id
                        /\ timers' = timers \o
                              <<Timer(FIRE_DESTROY_DELAY, "fireDestroy", closestTarget,
                                      highScore, 0, 0, gameState),
                                Timer(FIRE_RETURN_DELAY, "fireReturn", NoTarget, 0, 0, 0,
                                      gameState)>>
                        /\ enemyInterval' = NoInterval
                        /\ UNCHANGED <<celestialObjects, galaxyInfo, enemyLasers, score,
                                       highScore, stored, playerHealth, ultraBoostCount,
                                       level, promises, generation, shotsLeft,
                                       framesLeft, hits>>
    /\ UNCHANGED projectionScale
    /\ Observe

Environment(drawSeqs, maxGenerations, budgeted) ==
    \/ Tick
    \/ AutoLeapTimer
    \/ LeapTimer
    \/ ResolveGalaxyInfo(drawSeqs, maxGenerations)
    \/ FireDestroyTimer
    \/ BoostDestroyTimer
    \/ FireReturnTimer
    \/ BoostReturnTimer
    \/ EnemyInterval(budgeted)
    \/ EnemyHitTimer
    \/ RunEffects
    \/ IdleFrame

(* The controls as rendered: the Leap, Boost and Pause buttons carry a     *)
(* disabled attribute, a target of the starfield can be clicked in any     *)
(* phase, the restart button exists in the game-over modal only (Restart). *)
LeapButton == gameState = "IDLE" /\ handleQuantumLeap
BoostButton ==
    /\ gameState = "IDLE" /\ ultraBoostCount > 0
    /\ \E visible \in SUBSET Ids(celestialObjects) : fireUltraBoost(visible)
PauseButton == gameState \in {"IDLE", "PAUSED"} /\ togglePause
TargetClick == \E i \in 1..Len(celestialObjects) : fireOnTarget(i)

Controls ==
    \/ LeapButton
    \/ BoostButton
    \/ PauseButton
    \/ TargetClick

Player == Restart \/ Controls

(* The game from its mount, under at most MaxEnemyShots enemy shots: the   *)
(* game-over modal and its restart button are never rendered.              *)
Next == Environment(DrawSeqs, MaxGenerations, TRUE) \/ Controls

Spec == Init /\ [][Next]_vars

(* The handlers called in any phase, whatever the buttons allow *)
DirectCall ==
    \/ handleQuantumLeap
    \/ \E visible \in SUBSET Ids(celestialObjects) : fireUltraBoost(visible)
    \/ togglePause

NextDirect == Environment(LateDrawSeqs, MaxGenerations, TRUE) \/ Controls \/ DirectCall

SpecDirect == Init /\ [][NextDirect]_vars

(* The game with auto-aim switched on: a click on a target is ignored and  *)
(* the auto-fire interval fires at any time, on a galaxy of two ships and   *)
(* an asteroid; the other controls as rendered.                            *)
SpecAutoAim ==
    Init /\ [][\/ Environment({<<Draw(10, 10), Draw(10, 97), Draw(70, 0)>>},
                              AttritionGenerations, TRUE)
               \/ LeapButton
               \/ BoostButton
               \/ PauseButton
               \/ handleAutoFire]_vars

(* The game from its mount with the time spent in IDLE kept, and with the  *)
(* frames and controls that may come at any time of the enemy-fire period. *)
InitFrames == MountState /\ idleClock = 0

NextFrames == Environment(LateDrawSeqs, MaxGenerations, TRUE) \/ Controls \/ IdleTick

SpecFrames == InitFrames /\ [][NextFrames]_vars

(* The game from its mount on galaxies whose ships move on the grid: a     *)
(* fighter drifting across the 180th meridian, an interceptor flanking far *)
(* from the origin; with the frames of every phase.                        *)
MotionDrawSeqs == { <<DrawAt(10, 10, 0, 50, 0, 0), DrawAt(70, 0, 50, 50, 50, 0)>>,
                    <<DrawAt(10, 50, 99, 99, 50, 99), DrawAt(70, 0, 50, 50, 50, 0)>> }

NextMotion == Environment(MotionDrawSeqs, AttritionGenerations, TRUE) \/ Controls \/ FrozenFrame

SpecMotion == Init /\ [][NextMotion]_vars

(* One galaxy played under enemy fire without a budget, down to the        *)
(* game-over modal and the restart button.                                 *)
NextAttrition == Environment(LateDrawSeqs, AttritionGenerations, FALSE) \/ Player

SpecAttrition == Init /\ [][NextAttrition]_vars

(* The game late in a mission: the state SpecAttrition reaches after       *)
(* LateHits hits and a frame (LateState), from which the player plays on.  *)
LateStateOf(drawSeqs, lateHits) ==
    /\ gameState = "IDLE"
    /\ \E capRand \in CapDraws, draws \in drawSeqs :
          celestialObjects = generateCelestialObjects(1, capRand, draws, 1)
    /\ galaxyInfo = "loaded"
    /\ laser = NoLaser
    /\ enemyLasers = <<>>
    /\ score = 0
    /\ stored \in StoredAtMount
    /\ highScore = IF stored = NoValue THEN 0 ELSE stored
    /\ playerHealth = MAX_PLAYER_HEALTH - lateHits * ENEMY_LASER_DAMAGE
    /\ ultraBoostCount = INITIAL_BOOSTS
    /\ level = 1
    /\ timers = <<>>
    /\ enemyInterval = EnemyFirePeriod(celestialObjects)
    /\ promises = <<>>
    /\ generation = 1
    /\ framesLeft = MaxFrames
    /\ hits = lateHits
    /\ lastEvent = Event("frame")
    /\ phaseLog = <<>>
    /\ clearLevel = 0
    /\ clearRest = 0
    /\ boost = NoBoost
    /\ idleClock = NoValue
    /\ projectionScale = BaseScale(MountViewport)

LateState == LateStateOf(LateDrawSeqs, LateHits)

InitLate == LateState /\ shotsLeft = LateEnemyShots

NextLate == Environment(LateDrawSeqs, LateGenerations, TRUE) \/ Player

SpecLate == InitLate /\ [][NextLate]_vars

(* The same late in a mission on a galaxy of two ships of unequal score,   *)
(* the more valuable one first in the population.                          *)
InitRecord == LateStateOf(RecordDrawSeqs, RecordHits) /\ shotsLeft = RecordEnemyShots

NextRecord == Environment(RecordDrawSeqs, LateGenerations, TRUE) \/ Player

SpecRecord == InitRecord /\ [][NextRecord]_vars

(* generateCelestialObjects on its own: the call made after the mount,     *)
(* for each level, each cap and each of a family of draw streams long      *)
(* enough for every slot.  A stream is periodic in the slot number: its    *)
(* category draw is constant (step 0: all heart stars, all boost stars,    *)
(* all in the ship range, all asteroids, all stars) or runs through every  *)
(* percentage; the other draws run through every percentage.               *)
StreamSteps == {0, 1, 3, 7}
StreamStarts == {0, 1, 10, 24, 30, 70}
GenerateCapDraws == {0, 50, 99}

Stream(step, start) ==
    [i \in 1..(CELESTIAL_OBJECT_COUNT + 1) |->
        DrawAt((step * i + start) % 100, (7 * i + 13 * step) % 100,
               (3 * i + start) % 100, (9 * i + step) % 100,
               (11 * i) % 100, (51 * i) % 100)]

Generate ==
    /\ lastEvent.name = "mount"
    /\ \E lvl \in 1..MaxLevel, capRand \in GenerateCapDraws,
          step \in StreamSteps, start \in StreamStarts :
          /\ celestialObjects' =
                generateCelestialObjects(lvl, capRand, Stream(step, start), generation + 1)
          /\ level' = lvl
          /\ lastEvent' = EventWith("generate", MaxShipsForLevel(capRand))
    /\ generation' = generation + 1
    /\ UNCHANGED <<gameState, galaxyInfo, laser, enemyLasers, score, highScore, stored,
                   playerHealth, ultraBoostCount, timers, enemyInterval, promises,
                   shotsLeft, framesLeft, hits>>
    /\ UNCHANGED projectionScale
    /\ Observe

SpecGenerate == Init /\ [][Generate]_vars

(* The same call with the category draw of every slot kept beside the cap *)
GenerateSlots ==
    /\ lastEvent.name = "mount"
    /\ \E lvl \in 1..MaxLevel, capRand \in GenerateCapDraws,
          step \in StreamSteps, start \in StreamStarts :
          /\ celestialObjects' =
                generateCelestialObjects(lvl, capRand, Stream(step, start), generation + 1)
          /\ level' = lvl
          /\ lastEvent' = EventWith("generateSlots",
                             [maxShipsForLevel |-> MaxShipsForLevel(capRand),
                              typeRand |-> [i \in 1..CELESTIAL_OBJECT_COUNT |->
                                               Stream(step, start)[i].typeRand]])
    /\ generation' = generation + 1
    /\ UNCHANGED <<gameState, galaxyInfo, laser, enemyLasers, score, highScore, stored,
                   playerHealth, ultraBoostCount, timers, enemyInterval, promises,
                   shotsLeft, framesLeft, hits>>
    /\ UNCHANGED projectionScale
    /\ Observe

SpecSlots == Init /\ [][GenerateSlots]_vars

(* The game from its mount with what the browser guarantees: a timer that  *)
(* is due runs, time passes, the effects of a commit are flushed.  Nothing *)
(* is assumed of the narrative service: the continuation of an await runs  *)
(* when the request settles, and nothing bounds the time that takes.       *)
MachineFairness ==
    /\ WF_vars(Tick)
    /\ WF_vars(RunEffects)
    /\ WF_vars(AutoLeapTimer)
    /\ WF_vars(LeapTimer)
    /\ WF_vars(FireDestroyTimer)
    /\ WF_vars(BoostDestroyTimer)
    /\ WF_vars(FireReturnTimer)
    /\ WF_vars(BoostReturnTimer)
    /\ WF_vars(EnemyHitTimer)
    /\ WF_vars(EnemyInterval(TRUE))

NextService == Environment(LateDrawSeqs, AttritionGenerations, TRUE) \/ Controls

SpecService == Init /\ [][NextService]_vars /\ MachineFairness

(* The movement loop on its own: an IDLE game whose population is one ship *)
(* that moves, a fighter or an interceptor, spawned at each place of a     *)
(* grid of coordinate draws (the extremes, the origin, places in between)  *)
(* with each drift or direction, and nothing but animation frames.         *)
CoordDraws == {0, 1, 10, 25, 49, 50, 51, 75, 98, 99}
TickDrawSeqs ==
    { <<DrawAt(10, rand, lonRand, latRand, velRand, dirRand)>> :
        rand \in {10, 50}, lonRand \in CoordDraws, latRand \in CoordDraws,
        velRand \in {0, 50, 99}, dirRand \in {0, 99} }

InitTicks == LateStateOf(TickDrawSeqs, 0) /\ shotsLeft = 0

SpecTicks == InitTicks /\ [][IdleFrame]_vars

(* The frames of a galaxy that has an entity of every kind: a fighter and  *)
(* an interceptor spawned on the grid of CoordDraws, a cruiser that stays  *)
(* at (176.4, 88.2), a heart star, a boost star, an asteroid and a star.   *)
InitCrowdTicks ==
    /\ LateStateOf({ <<DrawAt(10, 10, lonRand, 50, velRand, 0),
                       DrawAt(10, 50, 50, latRand, 50, dirRand),
                       DrawAt(10, 70, 99, 99, 50, 0),
                       Draw(0, 0), Draw(1, 0), Draw(30, 0), Draw(70, 0)>> :
                     lonRand \in CoordDraws, latRand \in CoordDraws,
                     velRand \in {0, 99}, dirRand \in {0, 99} }, 0)
    /\ shotsLeft = 0

SpecCrowdTicks == InitCrowdTicks /\ [][IdleFrame]_vars

(* A galaxy of a drifting fighter, a flanking interceptor and a star,      *)
(* played with every control while the ships move.                         *)
InitSkirmish ==
    /\ LateStateOf({ <<DrawAt(10, 10, 0, 50, 99, 0), DrawAt(10, 50, 99, 99, 50, 99),
                       Draw(70, 0)>> }, 0)
    /\ shotsLeft = MaxEnemyShots

SpecSkirmish ==
    InitSkirmish /\ [][Environment(LateDrawSeqs, LateGenerations, TRUE) \/ Controls]_vars

(* The starfield's view: wheel events of one notch and of ten, and resizes *)
(* to a desktop window, a phone and a window 200 pixels high.              *)
handleWheel ==
    /\ \E deltaY \in {-1000, -100, 100, 1000} :
          /\ projectionScale' = Zoomed(projectionScale, deltaY)
          /\ lastEvent' = EventWith("wheel", deltaY)
    /\ UNCHANGED <<gameVars, schedVars, shotsLeft, framesLeft, hits>>
    /\ Observe

resize ==
    /\ \E viewport \in {<<1920, 1080>>, <<390, 844>>, <<1280, 200>>} :
          /\ projectionScale' = Resized(projectionScale, viewport)
          /\ lastEvent' = EventWith("resize", viewport)
    /\ UNCHANGED <<gameVars, schedVars, shotsLeft, framesLeft, hits>>
    /\ Observe

SpecView == Init /\ [][handleWheel \/ resize]_vars

(* generateGalaxyInfo (services/geminiService).  env is what the call      *)
(* meets: whether process.env.API_KEY is set, whether the request is       *)
(* answered or rejected, what response.text is (undefined, empty, text     *)
(* that is no JSON, JSON) and what the JSON text parses to: null, or an    *)
(* object whose name and description are absent, empty or a string.        *)
FALLBACK_GALAXY ==
    [name |-> "Andromeda Anomaly",
     description |-> "A familiar galaxy, twisted by an unknown cosmic event."]

ParsedValues ==
    {[kind |-> "null", name |-> "absent", description |-> "absent"]}
        \cup [kind : {"object"}, name : {"absent", "", "Veil of Orun"},
              description : {"absent", "", "Veil of Orun"}]
ServiceEnvs ==
    [apiKey : {"unset", "set"}, request : {"answered", "rejected"},
     text : {"undefined", "empty", "unparsable", "json"}, parsed : ParsedValues]

NoGalaxy == [name |-> "", description |-> ""]
Thrown == [threw |-> TRUE, value |-> NoGalaxy]
Returned(v) == [threw |-> FALSE, value |-> v]

(* JavaScript truthiness of a property that is absent, "" or a string *)
Truthy(field) == field \notin {"absent", ""}

(* getApiKey *)
getApiKey(env) == IF env.apiKey = "unset" THEN Thrown ELSE Returned("key")

(* The body of the try block: each step may throw *)
TryBody(env) ==
    IF getApiKey(env).threw THEN Thrown
    ELSE IF env.request = "rejected" THEN Thrown
    ELSE IF env.text = "undefined" THEN Thrown
    ELSE IF env.text \in {"empty", "unparsable"} THEN Thrown
    ELSE IF env.parsed.kind = "null" THEN Thrown
    ELSE IF Truthy(env.parsed.name) /\ Truthy(env.parsed.description)
      THEN Returned([name |-> env.parsed.name, description |-> env.parsed.description])
    ELSE Thrown

Settled(how, v) == [settled |-> how, value |-> v]

generateGalaxyInfo_KeyBeforeTry(env) ==
    IF getApiKey(env).threw THEN Settled("rejected", NoGalaxy)
    ELSE IF TryBody(env).threw THEN Settled("resolved", FALLBACK_GALAXY)
    ELSE Settled("resolved", TryBody(env).value)

(* The async function: what its promise settles to *)
generateGalaxyInfo(env) ==
    IF TryBody(env).threw THEN Settled("resolved", FALLBACK_GALAXY)
    ELSE Settled("resolved", TryBody(env).value)

(* generateGalaxyInfo on its own: the call of the mount, in every env *)
GalaxyInfoCall ==
    /\ lastEvent.name = "mount"
    /\ \E env \in ServiceEnvs :
          lastEvent' = EventWith("generateGalaxyInfo",
                                 [env |-> env, result |-> generateGalaxyInfo(env)])
    /\ UNCHANGED <<gameVars, schedVars, shotsLeft, framesLeft, hits>>
    /\ UNCHANGED projectionScale
    /\ Observe

SpecNarrative == Init /\ [][GalaxyInfoCall]_vars

TypeOK ==
    /\ gameState \in GameStates
    /\ playerHealth \in 0..MAX_PLAYER_HEALTH
    /\ shotsLeft >= 0
    /\ generation <= Max(MaxGenerations, LateGenerations)

----------------------------------------------------------------------------
(* Enemy fire and game over *)

(* C1: an enemy shot that resolves (its 1000 ms timer runs) while the      *)
(* phase is LEAPING or GENERATING leaves the player's health unchanged.    *)
C1_DamageDecidedAtResolution ==
    [][(/\ lastEvent'.name \in {"enemyHit", "enemyMiss"}
        /\ gameState \in {"LEAPING", "GENERATING"})
          => playerHealth' = playerHealth]_vars

(* C2: in GAME_OVER nothing but the restart changes the phase, the level   *)
(* or the population: no pending timer, no galaxy setup completing, no     *)
(* other input.                                                            *)
C2_GameOverIsTerminal ==
    [][(gameState = "GAME_OVER" /\ lastEvent'.name # "restart")
          => /\ gameState' = "GAME_OVER"
             /\ level' = level
             /\ celestialObjects' = celestialObjects]_vars

(* C3: starting from health 100, after n enemy hits the health is          *)
(* max(0, 100 - 5n), every hit lowering it by exactly 5 down to the floor  *)
(* 0; and when health is 0 in a phase other than GAME_OVER, the next step  *)
(* puts the phase to GAME_OVER.                                            *)
C3_HealthAfterHits ==
    /\ [](playerHealth = Max(0, 100 - 5 * hits))
    /\ [][/\ lastEvent'.name = "enemyHit" => playerHealth' = Max(0, playerHealth - 5)
          /\ (playerHealth <= 0 /\ gameState # "GAME_OVER") => gameState' = "GAME_OVER"]_vars

C3_Witness ==
    /\ hits = 20
    /\ playerHealth = 0
    /\ gameState = "GAME_OVER"
    /\ lastEvent.name = "gameOver"

----------------------------------------------------------------------------
(* Levels and leaps *)

(* C4: from the shot that destroys the last ship, health above 0, the      *)
(* phases run exactly IDLE, FIRING, IDLE, LEAPING, GENERATING, IDLE; at    *)
(* the final IDLE the level is one above the level of the shot and every   *)
(* ship of the new population is an mk2 type.  Read in the claim's favour: *)
(* only for a shot that leaves other entities in the population, as the    *)
(* auto-leap effect asks for a non-empty population.                       *)
C4_ClearRunsThePhases ==
    LET expected == <<"IDLE", "FIRING", "IDLE", "LEAPING", "GENERATING", "IDLE">>
    IN  (phaseLog # <<>> /\ clearRest > 0) =>
            /\ Len(phaseLog) <= 6
            /\ phaseLog = SubSeq(expected, 1, Len(phaseLog))
            /\ phaseLog = expected =>
                  /\ level = clearLevel + 1
                  /\ \A i \in Ships(celestialObjects) :
                        celestialObjects[i].shipType \in Mk2ShipTypes

(* C5: the level changes only when the auto-leap of a cleared level runs   *)
(* (by +1) and on restart (to 1); the manual leap, from the button to the  *)
(* new population, leaves it as it is.                                     *)
C5_LevelChanges ==
    [][/\ level' # level =>
            \/ lastEvent'.name = "autoLeapTimer" /\ level' = level + 1
            \/ lastEvent'.name = "restart" /\ level' = 1
       /\ lastEvent'.name \in {"handleQuantumLeap", "leapTimer", "leapDone"}
            => level' = level]_vars

(* C6: the restart in GAME_OVER sets the phase to GENERATING, the level to *)
(* 1, the score to 0, the health to 100, the boost charges to 5 and        *)
(* empties the population, which stays empty until a generated one         *)
(* replaces it.                                                            *)
C6_RestartResets ==
    [][/\ lastEvent'.name = "restart" =>
            /\ gameState = "GAME_OVER"
            /\ gameState' = "GENERATING"
            /\ level' = 1
            /\ score' = 0
            /\ playerHealth' = 100
            /\ ultraBoostCount' = 5
            /\ celestialObjects' = <<>>
       /\ (celestialObjects = <<>> /\ celestialObjects' # <<>>)
            => lastEvent'.name \in {"setupDone", "leapDone"}]_vars

C6_Witness ==
    /\ lastEvent.name = "restart"
    /\ score = 0
    /\ highScore > 20

----------------------------------------------------------------------------
(* Player fire *)

(* C7: fireOnTarget called in a phase other than IDLE changes neither the  *)
(* phase nor the laser, the population, the score or the pending timers;   *)
(* so at most one manual shot (a fireOnTarget destruction timer) is in     *)
(* flight at any time.                                                     *)
C7_FireOnlyFromIdle ==
    /\ [][(lastEvent'.name = "fireOnTarget" /\ gameState # "IDLE")
             => UNCHANGED <<gameState, laser, celestialObjects, score, timers>>]_vars
    /\ [](Cardinality(TimersOfKind({"fireDestroy"})) <= 1)

(* C8: fireUltraBoost called in a phase other than IDLE or with zero       *)
(* charges changes nothing; an accepted call lowers the charges by exactly *)
(* 1; the charges are never negative.                                      *)
C8_BoostCharges ==
    /\ [](ultraBoostCount >= 0)
    /\ [][lastEvent'.name = "fireUltraBoost" =>
            IF gameState # "IDLE" \/ ultraBoostCount = 0
              THEN UNCHANGED <<gameVars, timers, promises>>
              ELSE ultraBoostCount' = ultraBoostCount - 1]_vars

C8_Witness ==
    /\ lastEvent.name = "fireUltraBoost"
    /\ gameState = "IDLE"
    /\ ultraBoostCount = 0

(* C9: an accepted ultra-boost destroys exactly the ships that were on the *)
(* visible disc when it was called, one every 50 ms in population order    *)
(* (the k-th at 50 * (k - 1) ms), each removing its ship and adding its    *)
(* own score; the phase goes from FIRING back to IDLE only after all of    *)
(* them, 500 + 50 * n ms after the call.                                   *)
C9_BoostDestroysVisible ==
    [][/\ lastEvent'.name = "boostDestroy" =>
            LET t == timers[FirstDue].target
            IN  /\ boost.plan # <<>>
                /\ t.id = Head(boost.plan)
                /\ boost.clock = 50 * (boost.n - Len(boost.plan))
                /\ t.id \in Ids(celestialObjects)
                /\ celestialObjects' = SelectSeq(celestialObjects, LAMBDA o : o.id # t.id)
                /\ score' = score + ENEMY_SCORES(t.shipType)
       /\ (boost.clock # NoValue /\ gameState = "FIRING" /\ gameState' = "IDLE")
            => /\ lastEvent'.name = "boostReturn"
               /\ boost.plan = <<>>
               /\ boost.clock = 500 + 50 * boost.n]_vars

(* C10: destroying a ship raises the score by its table value (fighter 10, *)
(* interceptor 15, cruiser 25, bomber 50, dreadnought 100, an mk2 type     *)
(* twice that) and leaves health and boost charges unchanged; destroying a *)
(* star, an asteroid, a heart star or a boost star leaves the score        *)
(* unchanged.                                                              *)
C10_ScoreTable ==
    [][lastEvent'.name \in {"fireDestroy", "boostDestroy"} =>
         LET t == timers[FirstDue].target
             base == [c \in BaseShipTypes |->
                        CASE c = "fighter" -> 10 [] c = "interceptor" -> 15
                          [] c = "cruiser" -> 25 [] c = "bomber" -> 50
                          [] c = "dreadnought" -> 100]
             value == IF t.shipType \in BaseShipTypes THEN base[t.shipType]
                      ELSE 2 * base[CHOOSE c \in BaseShipTypes : Mk2Of(c) = t.shipType]
         IN  IF t.type = "ship"
               THEN /\ score' = score + value
                    /\ playerHealth' = playerHealth
                    /\ ultraBoostCount' = ultraBoostCount
               ELSE score' = score]_vars

C10_Witness ==
    /\ lastEvent.name = "fireDestroy"
    /\ level = 2
    /\ score = 200

----------------------------------------------------------------------------
(* Health and score *)

C12_HighScoreMonotonic == [][highScore' >= highScore]_vars

(* C13: the high score is at least the score in every state, and a ship   *)
(* destruction that raises the score above the high score writes the new   *)
(* score to the high score and to the persistent storage.                  *)
C13_HighScoreAtLeastScore ==
    /\ [](highScore >= score)
    /\ [][(/\ lastEvent'.name \in {"fireDestroy", "boostDestroy"}
            /\ timers[FirstDue].target.type = "ship"
            /\ score' > highScore)
              => (highScore' = score' /\ stored' = score')]_vars

(* C14: an enemy shot whose 1000 ms timer runs while the phase is IDLE,    *)
(* FIRING or PAUSED lowers the player's health by 5: a pause or a shot of  *)
(* the player after the launch does not cancel it.                         *)
C14_ShotLandsAfterPauseOrFire ==
    [][(/\ lastEvent'.name \in {"enemyHit", "enemyMiss"}
        /\ gameState \in {"IDLE", "FIRING", "PAUSED"})
          => playerHealth' = playerHealth - 5]_vars

C14_Witness ==
    /\ lastEvent.name = "enemyHit"
    /\ gameState = "PAUSED"
    /\ playerHealth = 95

----------------------------------------------------------------------------
(* Enemy fire and movement *)

(* C15: while the phase stays IDLE the callback of the enemy-fire interval *)
(* runs at least once in every period max(700, 2500 - 50 * ships), however *)
(* many frames of the movement loop come in between: the time of IDLE      *)
(* since the callback last ran never exceeds the period.                   *)
C15_EnemyFireRecurs ==
    (gameState = "IDLE" /\ idleClock # NoValue)
        => idleClock <= Max(700, 2500 - 50 * ShipCount(celestialObjects))

(* C16: each time the callback of the enemy-fire interval runs in IDLE     *)
(* while at least one ship is on the visible disc, exactly one enemy laser *)
(* is added and its origin is a ship on the disc; no laser is ever added   *)
(* whose origin is off the disc.                                           *)
C16_EnemyFiresFromVisible ==
    [][(lastEvent'.name \in {"enemyFire", "enemyHolds"} /\ gameState = "IDLE")
         => /\ (lastEvent'.arg # {}) => (Len(enemyLasers') = Len(enemyLasers) + 1)
            /\ \A k \in 1..Len(enemyLasers') :
                  (k > Len(enemyLasers)) => (enemyLasers'[k].from \in lastEvent'.arg)]_vars

----------------------------------------------------------------------------
(* The generator *)

(* C18: every call of generateCelestialObjects returns exactly 500         *)
(* entities whose ids are pairwise distinct, each with its longitude in    *)
(* -180..180 and its latitude in -90..90 degrees.                          *)
C18_GeneratedPopulation ==
    lastEvent.name = "generate" =>
        /\ Len(celestialObjects) = 500
        /\ Cardinality(Ids(celestialObjects)) = Len(celestialObjects)
        /\ \A i \in 1..Len(celestialObjects) :
              /\ celestialObjects[i].coordinates[1] \in (-180 * CoordUnit)..(180 * CoordUnit)
              /\ celestialObjects[i].coordinates[2] \in (-90 * CoordUnit)..(90 * CoordUnit)

C18_Witness ==
    /\ lastEvent.name = "generate"
    /\ level = 2
    /\ Len(celestialObjects) = 500
    /\ \E i \in 1..Len(celestialObjects) :
          celestialObjects[i].coordinates[1] = -180 * CoordUnit
    /\ \E i \in 1..Len(celestialObjects) :
          celestialObjects[i].coordinates[2] = -90 * CoordUnit

(* C19: the ships generateCelestialObjects(level) returns are all of base  *)
(* types when level = 1 and all of mk2 types when level > 1.               *)
C19_ShipTiersByLevel ==
    lastEvent.name = "generate" =>
        \A i \in Ships(celestialObjects) :
            IF level = 1 THEN celestialObjects[i].shipType \in BaseShipTypes
            ELSE celestialObjects[i].shipType \in Mk2ShipTypes

C19_Witness ==
    /\ lastEvent.name = "generate"
    /\ level = 2
    /\ {celestialObjects[i].shipType : i \in Ships(celestialObjects)} = Mk2ShipTypes

(* C20: a generated population never holds more ships than the cap drawn   *)
(* for that call, and the cap is at most 23.                               *)
C20_ShipsWithinCap ==
    lastEvent.name = "generate" =>
        /\ ShipCount(celestialObjects) <= lastEvent.arg
        /\ lastEvent.arg <= 23

C20_Witness ==
    /\ lastEvent.name = "generate"
    /\ lastEvent.arg = 23
    /\ ShipCount(celestialObjects) = 23
    /\ \E i \in 1..Len(celestialObjects) : celestialObjects[i].type = "asteroid"

----------------------------------------------------------------------------
(* Level clears, pause, the narrative service *)

(* C21: the auto-leap effect sets LEAPING only from IDLE with no ship, a   *)
(* population that is not empty and the narrative loaded; a clear starts   *)
(* one regeneration, so no two auto-leap timers are pending together; the  *)
(* timer of a clear raises the level by exactly one; and before the first  *)
(* population is there the level stays 1 with no auto-leap timer pending.  *)
C21_AutoLeapOncePerClear ==
    /\ [](Cardinality(TimersOfKind({"autoLeap"})) <= 1)
    /\ []((generation = 0) => (level = 1 /\ TimersOfKind({"autoLeap"}) = {}))
    /\ [][((lastEvent'.name = "autoLeap") =>
              (/\ gameState = "IDLE"
               /\ gameState' = "LEAPING"
               /\ ShipCount(celestialObjects) = 0
               /\ Len(celestialObjects) > 0
               /\ galaxyInfo = "loaded"
               /\ Len(timers') = Len(timers) + 1))
          /\ ((Len(timers') > Len(timers) /\ timers'[Len(timers')].kind = "autoLeap") =>
              (ShipCount(celestialObjects) = 0 /\ gameState' = "LEAPING"))
          /\ ((lastEvent'.name = "autoLeapTimer") => (level' = level + 1))]_vars

(* C22: togglePause takes IDLE to PAUSED and PAUSED to IDLE and leaves any  *)
(* other phase as it is; it changes neither the population nor the score,  *)
(* the health, the level or the boost charges, so that two toggles from    *)
(* IDLE end in IDLE with all of them as they were.                         *)
C22_PauseToggles ==
    [][(lastEvent'.name = "togglePause") =>
         (/\ (gameState = "IDLE") => (gameState' = "PAUSED")
          /\ (gameState = "PAUSED") => (gameState' = "IDLE")
          /\ (gameState \notin {"IDLE", "PAUSED"}) => (gameState' = gameState)
          /\ celestialObjects' = celestialObjects
          /\ score' = score
          /\ playerHealth' = playerHealth
          /\ level' = level
          /\ ultraBoostCount' = ultraBoostCount)]_vars

C22_Witness ==
    /\ lastEvent.name = "togglePause"
    /\ gameState = "IDLE"
    /\ ShipCount(celestialObjects) > 0
    /\ timers # <<>>

(* C23: the promise of generateGalaxyInfo is never rejected, and when the  *)
(* API key is not set, the request fails, the text is no JSON or the       *)
(* parsed response lacks name or description, it resolves to exactly the   *)
(* Andromeda Anomaly fallback.                                             *)
C23_NarrativeFallback ==
    (lastEvent.name = "generateGalaxyInfo") =>
        LET env == lastEvent.arg.env
            result == lastEvent.arg.result
            failed == \/ env.apiKey = "unset"
                      \/ env.request = "rejected"
                      \/ env.text # "json"
                      \/ env.parsed.kind = "null"
                      \/ env.parsed.name = "absent"
                      \/ env.parsed.description = "absent"
        IN  /\ result.settled = "resolved"
            /\ failed =>
                  (result.value =
                     [name |-> "Andromeda Anomaly",
                      description |->
                          "A familiar galaxy, twisted by an unknown cosmic event."])

C23_Witness ==
    /\ lastEvent.name = "generateGalaxyInfo"
    /\ lastEvent.arg.env.apiKey = "unset"
    /\ lastEvent.arg.result.settled = "resolved"
    /\ lastEvent.arg.result.value.name = "Andromeda Anomaly"

(* C24: the phase does not stay GENERATING for ever: from every state in  *)
(* GENERATING the phase becomes IDLE or GAME_OVER, whether or not the      *)
(* narrative service answers.                                              *)
C24_GeneratingEnds ==
    (gameState = "GENERATING") ~> (gameState \in {"IDLE", "GAME_OVER"})

----------------------------------------------------------------------------
(* The view *)

(* C25: whatever wheel and resize events have come, the scale of the       *)
(* projection is at least 100 and at most 2000.                            *)
C25_ScaleWithinZoomRange ==
    projectionScale \in (100 * ScaleUnit)..(2000 * ScaleUnit)

----------------------------------------------------------------------------
(* Movement *)

(* C26: one frame takes a flanking ship at a distance r > 0 from the       *)
(* origin of the (longitude, latitude) plane to a place at the same        *)
(* distance, up to the rounding of the grid, with its longitude within     *)
(* -180..180, and a flanking ship at the origin to (0.1, 0).  The squares  *)
(* of two distances that differ by at most a grid step differ by no more   *)
(* than 2 (|lon| + |lat|) + 1.                                             *)
C26_FlankKeepsRadius ==
    [][(lastEvent'.name = "frame" /\ Len(celestialObjects') = Len(celestialObjects)) =>
         \A i \in 1..Len(celestialObjects) :
            (celestialObjects[i].type = "ship"
               /\ celestialObjects[i].movementPattern = "flank") =>
              LET lon == celestialObjects[i].coordinates[1]
                  lat == celestialObjects[i].coordinates[2]
                  newLon == celestialObjects'[i].coordinates[1]
                  newLat == celestialObjects'[i].coordinates[2]
                  absLon == IF lon < 0 THEN -lon ELSE lon
                  absLat == IF lat < 0 THEN -lat ELSE lat
                  change == (newLon * newLon + newLat * newLat) - (lon * lon + lat * lat)
              IN  IF lon = 0 /\ lat = 0
                    THEN celestialObjects'[i].coordinates = <<1, 0>>
                    ELSE /\ change <= 2 * (absLon + absLat) + 1
                         /\ -change <= 2 * (absLon + absLat) + 1
                         /\ newLon \in (-180 * CoordUnit)..(180 * CoordUnit)]_vars

(* C26 as amended: the same, the distance being kept whenever the frame    *)
(* neither clamps the latitude at 90 degrees nor wraps the longitude       *)
(* across the 180th meridian.                                              *)
C26_FlankKeepsRadiusInside ==
    [][(lastEvent'.name = "frame" /\ Len(celestialObjects') = Len(celestialObjects)) =>
         \A i \in 1..Len(celestialObjects) :
            (celestialObjects[i].type = "ship"
               /\ celestialObjects[i].movementPattern = "flank") =>
              LET lon == celestialObjects[i].coordinates[1]
                  lat == celestialObjects[i].coordinates[2]
                  newLon == celestialObjects'[i].coordinates[1]
                  newLat == celestialObjects'[i].coordinates[2]
                  absLon == IF lon < 0 THEN -lon ELSE lon
                  absLat == IF lat < 0 THEN -lat ELSE lat
                  change == (newLon * newLon + newLat * newLat) - (lon * lon + lat * lat)
                  clamped == newLat \in {-90 * CoordUnit, 90 * CoordUnit}
                  wrapped == newLon - lon > 180 * CoordUnit \/ lon - newLon > 180 * CoordUnit
              IN  IF lon = 0 /\ lat = 0
                    THEN celestialObjects'[i].coordinates = <<1, 0>>
                    ELSE /\ (~clamped /\ ~wrapped) =>
                              (/\ change <= 2 * (absLon + absLat) + 1
                               /\ -change <= 2 * (absLon + absLat) + 1)
                         /\ newLon \in (-180 * CoordUnit)..(180 * CoordUnit)]_vars

C26_Witness ==
    /\ lastEvent.name = "frame"
    /\ framesLeft = MaxFrames - 1
    /\ \E i \in 1..Len(celestialObjects) :
          /\ celestialObjects[i].movementPattern = "flank"
          /\ celestialObjects[i].flankDirection = "ccw"
          /\ celestialObjects[i].coordinates = <<1760, 891>>

(* C27: a frame changes neither the latitude nor the velocity of a         *)
(* strafing ship whose velocity has no latitude part, wherever within the  *)
(* legal range it was spawned.                                             *)
C27_StrafeIsHorizontal ==
    [][(lastEvent'.name = "frame" /\ Len(celestialObjects') = Len(celestialObjects)) =>
         \A i \in 1..Len(celestialObjects) :
            (celestialObjects[i].type = "ship"
               /\ celestialObjects[i].movementPattern = "strafe"
               /\ celestialObjects[i].velocity[2] = 0) =>
              (/\ celestialObjects'[i].coordinates[2] = celestialObjects[i].coordinates[2]
               /\ celestialObjects'[i].velocity = celestialObjects[i].velocity)]_vars

(* C27 as amended: the same for a strafing ship whose latitude is within   *)
(* -85..85; a ship spawned beyond is set to 85 or -85 by its first frame.  *)
C27_StrafeIsHorizontalWithin85 ==
    [][(lastEvent'.name = "frame" /\ Len(celestialObjects') = Len(celestialObjects)) =>
         \A i \in 1..Len(celestialObjects) :
            (celestialObjects[i].type = "ship"
               /\ celestialObjects[i].movementPattern = "strafe"
               /\ celestialObjects[i].velocity[2] = 0) =>
              LET lat == celestialObjects[i].coordinates[2]
                  newLat == celestialObjects'[i].coordinates[2]
              IN  /\ celestialObjects'[i].velocity = celestialObjects[i].velocity
                  /\ (lat \in (-85 * CoordUnit)..(85 * CoordUnit)) => (newLat = lat)
                  /\ (lat > 85 * CoordUnit) => (newLat = 85 * CoordUnit)
                  /\ (lat < -85 * CoordUnit) => (newLat = -85 * CoordUnit)]_vars

C27_Witness ==
    /\ lastEvent.name = "frame"
    /\ framesLeft = MaxFrames - 2
    /\ \E i \in 1..Len(celestialObjects) :
          /\ celestialObjects[i].movementPattern = "strafe"
          /\ celestialObjects[i].velocity = <<2, 0>>
          /\ celestialObjects[i].coordinates = <<-1796, 450>>

(* C28: each auto-fire selects, among the enemy ships visible at that      *)
(* moment, the one whose screen position is nearest to the player's, the   *)
(* first one in population order winning a tie, and does nothing when no   *)
(* ship is visible or the phase is not IDLE.                               *)
C28_AutoFireNearestVisible ==
    [][lastEvent'.name = "handleAutoFire" =>
         LET screenPos == lastEvent'.arg
             from == ShipPosition(MountViewport)
             Visible(i) == /\ celestialObjects[i].type = "ship"
                           /\ OnDisc(screenPos[celestialObjects[i].id], projectionScale,
                                     MountViewport)
             Distance(i) == SquaredDistance(screenPos[celestialObjects[i].id], from)
             visible == {i \in 1..Len(celestialObjects) : Visible(i)}
         IN  IF visible = {} \/ gameState # "IDLE"
               THEN UNCHANGED <<gameVars, schedVars>>
               ELSE \E i \in visible :
                       /\ \A j \in visible : Distance(i) <= Distance(j)
                       /\ \A j \in visible : j < i => Distance(i) < Distance(j)
                       /\ laser' = celestialObjects[i].id
                       /\ gameState' = "FIRING"
                       /\ Len(timers') = Len(timers) + 2
                       /\ timers'[Len(timers) + 1].kind = "fireDestroy"
                       /\ timers'[Len(timers) + 1].target = celestialObjects[i]
                       /\ UNCHANGED celestialObjects]_vars

(* an auto-fire in IDLE with the two ships on the disc at the same         *)
(* distance from the player: the first of the two is fired on              *)
C28_Witness ==
    /\ lastEvent.name = "handleAutoFire"
    /\ gameState = "FIRING"
    /\ Len(celestialObjects) >= 2
    /\ celestialObjects[1].type = "ship" /\ celestialObjects[2].type = "ship"
    /\ lastEvent.arg[celestialObjects[1].id] = <<1020, 1000>>
    /\ lastEvent.arg[celestialObjects[2].id] = <<900, 1000>>
    /\ laser = celestialObjects[1].id

(* C29: a new enemy laser is created only while the phase is IDLE: once    *)
(* the phase has left IDLE no further enemy shot is initiated until the    *)
(* phase is IDLE again.                                                    *)
C29_EnemyFiresInIdleOnly ==
    [][Len(enemyLasers') > Len(enemyLasers) =>
          gameState = "IDLE" /\ gameState' = "IDLE"]_vars

(* the game paused with ships left and an enemy laser in flight: the       *)
(* interval that fired it is cleared                                       *)
C29_Witness ==
    /\ gameState = "PAUSED"
    /\ Ships(celestialObjects) # {}
    /\ Len(enemyLasers) > 0
    /\ enemyInterval = NoInterval

(* C30: after any number of movement ticks every ship keeps its longitude  *)
(* in [-180, 180] and its latitude in [-90, 90], and every strafing ship   *)
(* has its latitude in [-85, 85] after its first tick.                     *)
C30_ShipsStayOnTheMap ==
    /\ [](\A i \in Ships(celestialObjects) :
             /\ celestialObjects[i].coordinates[1]
                   \in (-LON_LIMIT * CoordUnit)..(LON_LIMIT * CoordUnit)
             /\ celestialObjects[i].coordinates[2]
                   \in (-LAT_LIMIT * CoordUnit)..(LAT_LIMIT * CoordUnit))
    /\ [][(lastEvent'.name = "frame" /\ gameState = "IDLE") =>
             \A i \in Ships(celestialObjects') :
                celestialObjects'[i].movementPattern = "strafe" =>
                   celestialObjects'[i].coordinates[2]
                      \in (-STRAFE_LAT_LIMIT * CoordUnit)..(STRAFE_LAT_LIMIT * CoordUnit)]_vars

(* three frames after a fighter was spawned at (-180, -90) drifting west:  *)
(* it has crossed the 180th meridian and flies at latitude -85             *)
C30_Witness ==
    /\ lastEvent.name = "frame"
    /\ framesLeft = MaxFrames - 3
    /\ \E i \in Ships(celestialObjects) :
          /\ celestialObjects[i].movementPattern = "strafe"
          /\ celestialObjects[i].coordinates = <<1794, -850>>

(* C31: a movement tick never adds, removes, reorders or re-identifies     *)
(* entities: the population keeps the same ids in the same order, and      *)
(* stars, asteroids, heart stars, boost stars and static ships are left    *)
(* completely unchanged.                                                   *)
C31_TickKeepsThePopulation ==
    [][lastEvent'.name = "frame" =>
         /\ Len(celestialObjects') = Len(celestialObjects)
         /\ \A i \in 1..Len(celestialObjects) :
               /\ celestialObjects'[i].id = celestialObjects[i].id
               /\ celestialObjects'[i].type = celestialObjects[i].type
               /\ (celestialObjects[i].type # "ship"
                     \/ celestialObjects[i].movementPattern = "static") =>
                    celestialObjects'[i] = celestialObjects[i]]_vars

(* one frame after the mount of a galaxy of seven: the fighter has moved   *)
(* from (-180, 0) to (-179.8, 0), the cruiser and the others are in place  *)
C31_Witness ==
    /\ lastEvent.name = "frame"
    /\ framesLeft = MaxFrames - 1
    /\ Len(celestialObjects) = 7
    /\ celestialObjects[1].movementPattern = "strafe"
    /\ celestialObjects[1].coordinates = <<-1798, 0>>
    /\ celestialObjects[3].movementPattern = "static"
    /\ celestialObjects[3].coordinates = <<1764, 882>>
    /\ {celestialObjects[i].type : i \in 4..7} = {"heart_star", "boost_star", "asteroid", "star"}

(* C32: destroyTarget removes exactly the entity with the target's id and  *)
(* no other, and a destroyed entity never reappears in the population of   *)
(* that level, whatever movement ticks are interleaved before or after the *)
(* removal: ids enter the population only with a new generation, whose ids *)
(* no earlier population had.                                              *)
C32_DestroyedStaysDestroyed ==
    /\ [](\A id \in Ids(celestialObjects) : id[1] <= generation)
    /\ [][/\ lastEvent'.name \in {"fireDestroy", "boostDestroy"} =>
               LET t == timers[FirstDue].target
               IN  /\ celestialObjects' =
                         SelectSeq(celestialObjects, LAMBDA o : o.id # t.id)
                   /\ t.id \notin Ids(celestialObjects')
          /\ \A id \in Ids(celestialObjects') \ Ids(celestialObjects) :
                generation' > generation /\ id[1] = generation']_vars

(* the fighter was fired on after it had moved and is gone, the            *)
(* interceptor and the star are left, and a frame has moved the            *)
(* interceptor since                                                       *)
C32_Witness ==
    /\ lastEvent.name = "frame"
    /\ generation = 1
    /\ framesLeft = 0
    /\ score = ENEMY_SCORES("fighter")
    /\ Len(celestialObjects) = 2
    /\ celestialObjects[1].movementPattern = "flank"
    /\ celestialObjects[1].coordinates # <<1764, 882>>
    /\ celestialObjects[2].type = "star"

(* C33: a destruction is applied against the latest population: when a     *)
(* pending destruction (200 ms after a shot, or a staggered ultra-boost    *)
(* destruction) resolves and its target is no longer in the current        *)
(* population, score, high score, health and boost charges are left        *)
(* unchanged.                                                              *)
C33_GoneTargetScoresNothing ==
    [][(/\ lastEvent'.name \in {"fireDestroy", "boostDestroy"}
        /\ timers[FirstDue].target.id \notin Ids(celestialObjects)) =>
          UNCHANGED <<score, highScore, playerHealth, ultraBoostCount>>]_vars

(* C34: advancing to the next level (automatic clear) and a manual Leap    *)
(* leave score, high score, health and boost charges unchanged; health is  *)
(* restored to 100 only by a restart.  Every step of the two transitions   *)
(* (the auto-leap effect and its timer, the Leap button and its timer, the *)
(* continuation that installs the new population) leaves the four values   *)
(* as they are; of the steps that set up a galaxy only the restart sets    *)
(* the health, to 100.                                                     *)
C34_LeapsKeepThePlayerState ==
    [][/\ lastEvent'.name \in {"autoLeap", "autoLeapTimer", "setupDone",
                               "handleQuantumLeap", "leapTimer", "leapDone"} =>
            UNCHANGED <<score, highScore, playerHealth, ultraBoostCount>>
       /\ (gameState' = "GENERATING" /\ playerHealth' # playerHealth) =>
            lastEvent'.name = "restart"
       /\ lastEvent'.name = "restart" => playerHealth' = MAX_PLAYER_HEALTH]_vars

(* level 2 reached by clearing level 1 with a hit taken and a ship scored  *)
C34_Witness ==
    /\ lastEvent.name = "setupDone"
    /\ level = 2
    /\ gameState = "IDLE"
    /\ playerHealth < MAX_PLAYER_HEALTH
    /\ playerHealth > 0
    /\ score > 0

(* C35: every generated population contains between 4 and 23 enemy ships.  *)
C35_BetweenFourAnd23Ships ==
    lastEvent.name = "generate" => ShipCount(celestialObjects) \in 4..23

(* C36: in every reachable state the ship tiers of the current population  *)
(* match the current level: while level = 1 no mk2 ship is in the          *)
(* population, and while level > 1 no base ship is, including after a      *)
(* restart requested while a manual-leap timer is still pending.           *)
C36_TiersMatchTheLevel ==
    \A i \in Ships(celestialObjects) :
        IF level = 1 THEN celestialObjects[i].shipType \notin Mk2ShipTypes
        ELSE celestialObjects[i].shipType \notin BaseShipTypes

(* C37: whenever the phase is IDLE the population is non-empty and the     *)
(* narrative info is loaded, for every interleaving of restart with the    *)
(* pending 500 ms fire-return and ultra-boost-return timers.               *)
C37_IdleHasAGalaxy ==
    gameState = "IDLE" => (Len(celestialObjects) > 0 /\ galaxyInfo # "null")

(* C38: in generateCelestialObjects, once the running ship count has       *)
(* reached the cap, every later slot whose category draw falls in the ship *)
(* range (0.02 <= draw < 0.25) becomes an asteroid, never a ship and never *)
(* a star.                                                                 *)
C38_OverCapIsAsteroid ==
    lastEvent.name = "generateSlots" =>
        LET cap == lastEvent.arg.maxShipsForLevel
            typeRand == lastEvent.arg.typeRand
            ships == Ships(celestialObjects)
            ShipsBefore(i) == Cardinality({j \in ships : j < i})
        IN  \A i \in 1..Len(celestialObjects) :
               (ShipsBefore(i) >= cap /\ typeRand[i] >= 2 /\ typeRand[i] < 25) =>
                  celestialObjects[i].type = "asteroid"

(* a population of 500 drawn in the ship range throughout with the cap at  *)
(* 4: four ships, and the slots after them are asteroids                   *)
C38_Witness ==
    /\ lastEvent.name = "generateSlots"
    /\ lastEvent.arg.maxShipsForLevel = 4
    /\ \A i \in 1..CELESTIAL_OBJECT_COUNT : lastEvent.arg.typeRand[i] = 10
    /\ Ships(celestialObjects) = 1..4
    /\ \A i \in 5..Len(celestialObjects) : celestialObjects[i].type = "asteroid"

(* C39: an ultra-boost accepted while no enemy ship is visible still       *)
(* consumes one charge, destroys nothing, and holds the phase in FIRING    *)
(* until the base 500 ms delay has elapsed before returning to IDLE: the   *)
(* phase leaves FIRING for IDLE by the return timer of that boost, 500 ms  *)
(* after the call, and otherwise only for GAME_OVER when the health has    *)
(* run out meanwhile.                                                      *)
C39_EmptyBoostHoldsFiring ==
    /\ []((boost.clock # NoValue /\ boost.n = 0) => boost.clock <= 500)
    /\ [][/\ (BoostAccepted /\ VisibleHostiles(celestialObjects, lastEvent'.arg) = <<>>) =>
               /\ ultraBoostCount' = ultraBoostCount - 1
               /\ gameState' = "FIRING"
               /\ UNCHANGED <<celestialObjects, score, highScore, playerHealth>>
               /\ Len(timers') = Len(timers) + 1
               /\ timers'[Len(timers')].kind = "boostReturn"
          /\ (boost.clock # NoValue /\ boost.n = 0 /\ gameState = "FIRING") =>
               /\ celestialObjects' = celestialObjects
               /\ gameState' # "FIRING" =>
                     \/ gameState' = "GAME_OVER"
                     \/ /\ lastEvent'.name = "boostReturn"
                        /\ boost.clock = 500
                        /\ gameState' = "IDLE"]_vars

====
